---- MODULE Spec2Model ----
(***************************************************************************)
(* Model of the analyze-mixed aggregator (src/src/tools/AnalyzeMixed/      *)
(* main.ts): the shared engine adapters, the fan-out of the engine tasks,  *)
(* the fan-in at Promise.all and the construction of the combined result.  *)
(* deduplicateIssues and groupByWCAG (./utils) follow section 4.4 of the   *)
(* specification.  The colour functions of src/src/utils/color-analysis.ts *)
(* (parseColor, getContrastRatio, the WCAG thresholds, suggestFixedColor,  *)
(* rgbToHex) are modelled as functions applied to one argument.            *)
(***************************************************************************)
EXTENDS Integers, Sequences, FiniteSets, TLC

VARIABLES
  pc,                  \* position of handleCombinedAnalysis
  input,               \* the CombinedAnalysisInput of the call
  task,                \* each engine's async task: "none" (not launched), "pending",
                       \* "resolved" (result pushed) or "caught" (error pushed)
  taskAdapter,         \* adapter instance the task called analyze on (0: none)
  analyzeCalls,        \* number of adapter.analyze invocations per engine
  results,             \* const results: AnalysisResult[]
  errors,              \* const errors: string[]
  combined,            \* the CombinedAnalysisResult (plus issuesByWCAG)
  sharedAdapter,       \* sharedAxeAdapter / sharedPa11yAdapter / sharedLighthouseAdapter
  currentIgnoreHTTPS,  \* currentAxeIgnoreHTTPS / ...Pa11y... / ...Lighthouse...
  instances,           \* per engine: the adapters constructed so far
  tieBreak,            \* how deduplicateIssues resolves a full tie
  response,            \* the ToolResponse handleCombinedAnalysis returned
  returned,            \* what the registered callback returned to the server
  calls,               \* overlapping analyze-mixed calls, each with its own
                       \* position, input and tasks
  disposal,            \* position of disposeAdapters
  fnArg,               \* argument of the pure function under study
  fnRes                \* its result

vars == <<pc, input, task, taskAdapter, analyzeCalls, results, errors, combined,
          sharedAdapter, currentIgnoreHTTPS, instances, tieBreak,
          response, returned, calls, disposal, fnArg, fnRes>>

----------------------------------------------------------------------------
(* Bounds *)

\* Overlapping analyze-mixed calls.
MaxCalls == 2

MaxIssues == 2     \* longest issue list one engine reports
MaxLen == 3        \* longest issue list handed to deduplicate on its own

----------------------------------------------------------------------------
(* Values *)

Engines == {"axe-core", "pa11y", "lighthouse"}

None == "none"
Undefined == "undefined"

SeqsUpTo(S, n) == UNION {[1..k -> S] : k \in 0..n}

Range(s) == {s[i] : i \in 1..Len(s)}

Severities == {"critical", "serious", "moderate", "minor"}

Principles == {"perceivable", "operable", "understandable", "robust"}

\* The severity an engine attaches to a rule.
SeverityOf(tool, ruleId) ==
  CASE ruleId \in {"image-alt", "role-img-alt"} ->
         IF tool = "lighthouse" THEN "serious" ELSE "critical"
    [] ruleId \in {"H37", "G18", "color-contrast"} -> "serious"
    [] ruleId = "region" -> "moderate"
    [] OTHER -> "minor"

\* wcag.principle of a WCAG reference: the principle its criterion falls under.
PrincipleOf(wcag) ==
  CASE wcag \in {"1.1.1", "1.4.3"} -> "perceivable"
    [] OTHER -> None

\* An AccessibilityIssue, reduced to the fields identity, grouping and the
\* summary read.
Issue(tool, ruleId, selector, file, line, wcag, context) ==
  [tool |-> tool, ruleId |-> ruleId, selector |-> selector, file |-> file,
   line |-> line, wcag |-> wcag, context |-> context,
   severity |-> SeverityOf(tool, ruleId), principle |-> PrincipleOf(wcag)]

ZeroBySeverity == [s \in Severities |-> 0]

ZeroByPrinciple == [p \in Principles |-> 0]

RECURSIVE SummaryLoop(_, _)
\* for (const issue of issues) { bySeverity[issue.severity]++; ... }
SummaryLoop(issues, acc) ==
  IF issues = <<>> THEN acc
  ELSE LET issue == Head(issues)
           bySeverity == [acc.bySeverity EXCEPT ![issue.severity] = @ + 1]
           byPrinciple == IF issue.principle # None
                          THEN [acc.byPrinciple EXCEPT ![issue.principle] = @ + 1]
                          ELSE acc.byPrinciple
           byRule == IF issue.ruleId \in DOMAIN acc.byRule
                     THEN [acc.byRule EXCEPT ![issue.ruleId] = @ + 1]
                     ELSE acc.byRule @@ (issue.ruleId :> 1)
       IN SummaryLoop(Tail(issues),
                      [bySeverity |-> bySeverity, byPrinciple |-> byPrinciple,
                       byRule |-> byRule])

\* buildSummary(issues): total, bySeverity, byPrinciple, byRule
BuildSummary(issues) ==
  LET counts == SummaryLoop(issues, [bySeverity |-> ZeroBySeverity,
                                     byPrinciple |-> ZeroByPrinciple,
                                     byRule |-> <<>>])
  IN [total |-> Len(issues), bySeverity |-> counts.bySeverity,
      byPrinciple |-> counts.byPrinciple, byRule |-> counts.byRule]

\* buildCombinedSummary(issues, tools): the same counting, and per tool.
BuildCombinedSummary(issues, tools) ==
  LET summary == BuildSummary(issues)
  IN [total |-> summary.total, bySeverity |-> summary.bySeverity,
      byPrinciple |-> summary.byPrinciple,
      byTool |-> [t \in tools |->
                    Cardinality({k \in 1..Len(issues) : issues[k].tool = t})]]

\* The issues an engine reports are drawn from these.
EngineIssues(e) ==
  CASE e = "axe-core" ->
         {Issue("axe-core", "image-alt", "img", None, 0, "1.1.1", TRUE),
          Issue("axe-core", "region", "main", None, 0, None, FALSE)}
    [] e = "pa11y" ->
         {Issue("pa11y", "H37", "img", None, 0, "1.1.1", FALSE),
          Issue("pa11y", "G18", "p", None, 0, "1.4.3", FALSE)}
    [] e = "lighthouse" ->
         {Issue("lighthouse", "image-alt", "img", None, 0, "1.1.1", FALSE),
          Issue("lighthouse", "color-contrast", "p", None, 0, "1.4.3", TRUE)}

\* What adapter.analyze can resolve to: a successful result with issues, or
\* an error envelope (success false, no issues) returned without throwing.
EngineResults(e) ==
  {[tool |-> e, success |-> TRUE, issues |-> l, summary |-> BuildSummary(l),
    error |-> Undefined] :
      l \in SeqsUpTo(EngineIssues(e), MaxIssues)}
  \cup {[tool |-> e, success |-> FALSE, issues |-> <<>>,
          summary |-> BuildSummary(<<>>), error |-> "analysis failed"]}

\* tools is non-empty (schema, main.ts:214-217); a target needs url or html,
\* and the inputs drawn carry one of the two.
Inputs ==
  {inp \in [tools : (SUBSET Engines) \ {{}}, url : BOOLEAN, html : BOOLEAN,
            deduplicateResults : BOOLEAN, ignoreHTTPSErrors : BOOLEAN] :
      inp.url # inp.html}

NoInput == [tools |-> {}, url |-> FALSE, html |-> FALSE,
            deduplicateResults |-> TRUE, ignoreHTTPSErrors |-> FALSE]

NoCombined == [success |-> FALSE, toolsUsed |-> <<>>, issues |-> <<>>,
               summary |-> BuildCombinedSummary(<<>>, {}),
               issuesByWCAG |-> <<>>, individualResults |-> <<>>,
               error |-> [defined |-> FALSE, parts |-> <<>>], originalCount |-> 0]

----------------------------------------------------------------------------
(* Shared adapters: getAxeAdapter / getPa11yAdapter / getLighthouseAdapter *)

\* Variant: an adapter is constructed only while the slot is empty.
NeedsNewAdapterOnlyFirst(e, ignoreHTTPSErrors) == sharedAdapter[e] = 0

\* The three getters differ only in the slot they use.  An adapter instance
\* of engine e is its index in instances[e]; 0 stands for null.
NeedsNewAdapter(e, ignoreHTTPSErrors) ==
  sharedAdapter[e] = 0 \/ currentIgnoreHTTPS[e] # ignoreHTTPSErrors

\* instances[e] after `sharedXAdapter.dispose().catch(() => {})` on a replaced
\* instance.
DisposeReplaced(e, ignoreHTTPSErrors) ==
  IF NeedsNewAdapter(e, ignoreHTTPSErrors) /\ sharedAdapter[e] # 0
  THEN [instances[e] EXCEPT ![sharedAdapter[e]].disposeCalls = @ + 1]
  ELSE instances[e]

NewAdapter(ignoreHTTPSErrors) ==
  [ignoreHTTPSErrors |-> ignoreHTTPSErrors, disposeCalls |-> 0]

\* The instance getXAdapter returns.
AdapterReturned(e, ignoreHTTPSErrors) ==
  IF NeedsNewAdapter(e, ignoreHTTPSErrors)
  THEN Len(instances[e]) + 1
  ELSE sharedAdapter[e]

\* getXAdapter(ignoreHTTPSErrors) returning normally.
GetAdapter(e, ignoreHTTPSErrors) ==
  /\ instances' = [instances EXCEPT ![e] =
        IF NeedsNewAdapter(e, ignoreHTTPSErrors)
        THEN Append(DisposeReplaced(e, ignoreHTTPSErrors), NewAdapter(ignoreHTTPSErrors))
        ELSE @]
  /\ sharedAdapter' = [sharedAdapter EXCEPT ![e] = AdapterReturned(e, ignoreHTTPSErrors)]
  /\ currentIgnoreHTTPS' = [currentIgnoreHTTPS EXCEPT ![e] = ignoreHTTPSErrors]

\* getXAdapter(ignoreHTTPSErrors) when the adapter's constructor throws: the
\* replaced instance was already told to dispose, the slot keeps its value.
GetAdapterThrows(e, ignoreHTTPSErrors) ==
  /\ NeedsNewAdapter(e, ignoreHTTPSErrors)
  /\ instances' = [instances EXCEPT ![e] = DisposeReplaced(e, ignoreHTTPSErrors)]
  /\ UNCHANGED <<sharedAdapter, currentIgnoreHTTPS>>

----------------------------------------------------------------------------
(* Tool responses (../Base) and the registered callback *)

\* createTextResponse(text, isError = false)
CreateTextResponse(text, isError) ==
  [content |-> <<[type |-> "text", text |-> text]>>, isError |-> isError]

\* JSON.stringify(data, null, 2): the text that stands for data
JsonStringify(data) == [json |-> data]

\* createJsonResponse(data, isError = false)
CreateJsonResponse(data, isError) == CreateTextResponse(JsonStringify(data), isError)

\* createErrorResponse(error): createTextResponse(`Error: ${message}`, true)
CreateErrorResponse(message) ==
  CreateTextResponse([prefix |-> "Error: ", message |-> message], TRUE)

\* return { content: response.content }, in both branches of the callback
CallbackReturn(resp) == [content |-> resp.content]

NoResponse == [content |-> <<>>, isError |-> FALSE]

NoReturn == [content |-> <<>>]

----------------------------------------------------------------------------
(* handleCombinedAnalysis *)

\* Variant: the Pa11y task's catch pushes the Axe label.
ErrorLabelCopied(e) ==
  CASE e = "axe-core" -> "Axe:"
    [] e = "pa11y" -> "Axe:"
    [] e = "lighthouse" -> "Lighthouse:"

ErrorLabel(e) ==
  CASE e = "axe-core" -> "Axe:"
    [] e = "pa11y" -> "Pa11y:"
    [] e = "lighthouse" -> "Lighthouse:"

\* `${label} ${msg}` pushed to errors; the entry keeps label and message apart.
ErrorEntry(e, msg) == [label |-> ErrorLabel(e), msg |-> msg]

LighthouseSkipMsg == "Only URL targets are supported. Provide a url instead of html."

\* Variant: the url check is missing.
LighthouseNeverSkipped(inp) == FALSE

\* if (!input.url) inside the lighthouse branch.
LighthouseSkipped(inp) == ~inp.url

\* The engines are handled in source order; after the last one the handler
\* reaches `await Promise.all(analysisPromises)`.
LaunchPc(e) ==
  CASE e = "axe-core" -> "launchAxe"
    [] e = "pa11y" -> "launchPa11y"
    [] e = "lighthouse" -> "launchLighthouse"

NextPc(e) ==
  CASE e = "axe-core" -> "launchPa11y"
    [] e = "pa11y" -> "launchLighthouse"
    [] e = "lighthouse" -> "awaitAll"

\* Entry of the handler: lines 91-110.
Invoke(inp) ==
  /\ pc = "idle"
  /\ pc' = "launchAxe"
  /\ input' = inp
  /\ results' = <<>>
  /\ errors' = <<>>
  /\ task' = [e \in Engines |-> "none"]
  /\ taskAdapter' = [e \in Engines |-> 0]
  /\ analyzeCalls' = [e \in Engines |-> 0]
  /\ combined' = NoCombined
  /\ UNCHANGED <<sharedAdapter, currentIgnoreHTTPS, instances, tieBreak,
                 response, returned, calls, disposal, fnArg, fnRes>>

\* One `if (toolsToRun.includes(e))` block: the async function runs
\* synchronously up to its `await adapter.analyze(...)`.
Launch(e) ==
  /\ pc = LaunchPc(e)
  /\ pc' = NextPc(e)
  /\ \/ /\ e \notin input.tools
        /\ UNCHANGED <<task, taskAdapter, analyzeCalls, errors,
                       sharedAdapter, currentIgnoreHTTPS, instances>>
     \/ /\ e \in input.tools
        /\ e = "lighthouse" /\ LighthouseSkipped(input)
        /\ errors' = Append(errors, ErrorEntry(e, LighthouseSkipMsg))
        /\ UNCHANGED <<task, taskAdapter, analyzeCalls,
                       sharedAdapter, currentIgnoreHTTPS, instances>>
     \/ /\ e \in input.tools
        /\ ~(e = "lighthouse" /\ LighthouseSkipped(input))
        /\ \/ /\ GetAdapter(e, input.ignoreHTTPSErrors)
              /\ taskAdapter' = [taskAdapter EXCEPT
                    ![e] = AdapterReturned(e, input.ignoreHTTPSErrors)]
              /\ analyzeCalls' = [analyzeCalls EXCEPT ![e] = @ + 1]
              /\ task' = [task EXCEPT ![e] = "pending"]
              /\ UNCHANGED errors
           \/ /\ GetAdapterThrows(e, input.ignoreHTTPSErrors)
              /\ errors' = Append(errors, ErrorEntry(e, "adapter construction failed"))
              /\ task' = [task EXCEPT ![e] = "caught"]
              /\ UNCHANGED <<taskAdapter, analyzeCalls>>
  /\ UNCHANGED <<input, results, combined, tieBreak,
                 response, returned, calls, disposal, fnArg, fnRes>>

LaunchAxe == Launch("axe-core")

LaunchPa11y == Launch("pa11y")

LaunchLighthouse == Launch("lighthouse")

\* Variant: each task is awaited right after it is created.
HandlerSuspendedAfterEachLaunch ==
  pc \in {"launchPa11y", "launchLighthouse", "awaitAll"}

\* A task's continuation runs only once the handler has given up control,
\* which it first does at `await Promise.all(analysisPromises)`.
HandlerSuspended == pc = "awaitAll"

\* `const result = await adapter.analyze(...)` resolves: results.push(result).
SettleResolve(e) ==
  /\ HandlerSuspended
  /\ task[e] = "pending"
  /\ \E r \in EngineResults(e) : results' = Append(results, r)
  /\ task' = [task EXCEPT ![e] = "resolved"]
  /\ UNCHANGED <<pc, input, taskAdapter, analyzeCalls, errors, combined,
                 sharedAdapter, currentIgnoreHTTPS, instances, tieBreak,
                 response, returned, calls, disposal, fnArg, fnRes>>

\* Variant: the task's catch calls analyze once more before giving up.
SettleRejectRetrying(e) ==
  /\ HandlerSuspended
  /\ task[e] = "pending"
  /\ errors' = Append(errors, ErrorEntry(e, "analysis threw"))
  /\ IF analyzeCalls[e] < 2
     THEN /\ analyzeCalls' = [analyzeCalls EXCEPT ![e] = @ + 1]
          /\ UNCHANGED task
     ELSE /\ task' = [task EXCEPT ![e] = "caught"]
          /\ UNCHANGED analyzeCalls
  /\ UNCHANGED <<pc, input, taskAdapter, results, combined,
                 sharedAdapter, currentIgnoreHTTPS, instances, tieBreak,
                 response, returned, calls, disposal, fnArg, fnRes>>

\* adapter.analyze rejects: the task's catch pushes the labelled message.
SettleReject(e) ==
  /\ HandlerSuspended
  /\ task[e] = "pending"
  /\ errors' = Append(errors, ErrorEntry(e, "analysis threw"))
  /\ task' = [task EXCEPT ![e] = "caught"]
  /\ UNCHANGED <<pc, input, taskAdapter, analyzeCalls, results, combined,
                 sharedAdapter, currentIgnoreHTTPS, instances, tieBreak,
                 response, returned, calls, disposal, fnArg, fnRes>>

----------------------------------------------------------------------------
(* ./utils: deduplicateIssues and groupByWCAG (specification, section 4.4) *)

\* The cross-engine rule-equivalence table: (tool, ruleId) -> defect class.
\* A rule the table does not list is its own class.
CanonicalRule(tool, ruleId) ==
  CASE ruleId \in {"image-alt", "role-img-alt", "H37"} -> "alt-text"
    [] ruleId \in {"color-contrast", "G18"} -> "contrast"
    [] OTHER -> ruleId

\* The location key: the selector, or file and line when there is none.
LocationKey(issue) ==
  IF issue.selector # None
  THEN <<"selector", issue.selector>>
  ELSE <<"file", issue.file, issue.line>>

\* Rule class, location key and the WCAG criterion when present.
Fingerprint(issue) ==
  <<CanonicalRule(issue.tool, issue.ruleId), LocationKey(issue), issue.wcag>>

\* Richer metadata: has wcag, has contrastData/humanContext.
Richness(issue) ==
  (IF issue.wcag # None THEN 1 ELSE 0) + (IF issue.context THEN 1 ELSE 0)

\* The fixed tool-priority order that breaks ties of richness.
ToolPriority(tool) ==
  CASE tool = "axe-core" -> 3
    [] tool = "pa11y" -> 2
    [] OTHER -> 1

Preferred(a, b) ==
  \/ Richness(a) > Richness(b)
  \/ Richness(a) = Richness(b) /\ ToolPriority(a.tool) > ToolPriority(b.tool)

\* Position k of issues holds the representative of its fingerprint group.
\* Nothing is said about two issues of a group that neither richness nor
\* tool priority tells apart: tieBreak covers both ways of keeping one.
IsRepresentative(issues, k) ==
  \A m \in 1..Len(issues) :
     (m # k /\ Fingerprint(issues[m]) = Fingerprint(issues[k])) =>
        /\ ~Preferred(issues[m], issues[k])
        /\ ~Preferred(issues[k], issues[m]) =>
              IF tieBreak = "first" THEN k < m ELSE m < k

\* The elements of issues at the positions in keep, in order.
KeepPositions(issues, keep) ==
  LET picked == SelectSeq([k \in 1..Len(issues) |-> k], LAMBDA k : k \in keep)
  IN  [j \in 1..Len(picked) |-> issues[picked[j]]]

\* Variant: one pass drops only the first duplicate it meets.
DedupOneDuplicate(issues) ==
  LET dups == {k \in 1..Len(issues) : ~IsRepresentative(issues, k)}
  IN  IF dups = {} THEN issues
      ELSE LET d == CHOOSE k \in dups : \A m \in dups : k <= m
           IN  KeepPositions(issues, (1..Len(issues)) \ {d})

\* Variant: the first issue seen of a fingerprint group is kept, whatever
\* its metadata and tool.
DedupFirstSeen(issues) ==
  KeepPositions(issues, {k \in 1..Len(issues) :
     \A m \in 1..(k - 1) : Fingerprint(issues[m]) # Fingerprint(issues[k])})

\* deduplicateIssues: one representative per fingerprint group, the kept
\* issues in their original relative order.
Dedup(issues) ==
  KeepPositions(issues, {k \in 1..Len(issues) : IsRepresentative(issues, k)})

\* groupByWCAG: criterion -> the issues that carry it, in order; issues
\* without a WCAG reference are in no group.
GroupByWCAG(issues) ==
  [c \in {issues[k].wcag : k \in 1..Len(issues)} \ {None} |->
     SelectSeq(issues, LAMBDA i : i.wcag = c)]

----------------------------------------------------------------------------
(* handleCombinedAnalysis after the await: lines 174-207 *)

\* Variant: Promise.race in place of Promise.all.
PromiseAnySettled == \E e \in Engines : task[e] \in {"resolved", "caught"}

\* await Promise.all(analysisPromises): every pushed promise is fulfilled
\* (a task catches whatever it throws, so none of them rejects).
PromiseAllSettled == \A e \in Engines : task[e] # "pending"

RECURSIVE FlatIssues(_)
\* results.flatMap(r => r.issues)
FlatIssues(res) ==
  IF res = <<>> THEN <<>> ELSE Head(res).issues \o FlatIssues(Tail(res))

AllIssues == FlatIssues(results)

\* Variant: the deduplicated list is computed but the raw one is used.
FinalIssuesRaw(shouldDeduplicate, allIssues) == allIssues

\* shouldDeduplicate ? deduplicateIssues(allIssues) : allIssues
FinalIssuesOf(shouldDeduplicate, allIssues) ==
  IF shouldDeduplicate THEN Dedup(allIssues) ELSE allIssues

FinalIssues == FinalIssuesOf(input.deduplicateResults, AllIssues)

\* Variant: the grouping is built from the issues before deduplication.
IssuesByWCAGOfAll == GroupByWCAG(AllIssues)

\* const issuesByWCAG = groupByWCAG(finalIssues)
IssuesByWCAG == GroupByWCAG(FinalIssues)

\* Variant: the summary is built from the issues before deduplication.
SummarisedIssuesAll == AllIssues

\* summary: buildCombinedSummary(finalIssues, toolsToRun)
SummarisedIssues == FinalIssues

\* Variant: success as soon as some engine delivered a result.
CombinedSuccessAnyResult(errs) == Len(results) > 0

\* success: errors.length === 0
CombinedSuccess(errs) == Len(errs) = 0

\* error: errors.length > 0 ? errors.join('; ') : undefined
CombinedError(errs) ==
  [defined |-> Len(errs) > 0, parts |-> errs]

\* Variant: only results of the tools that ToolSource names are listed.
IndividualResultsOfToolSource(res) ==
  SelectSeq(res, LAMBDA r : r.tool \in {"axe-core", "pa11y"})

\* individualResults: results
IndividualResults(res) == res

\* Variant: the tools that delivered, listed in the order of the source
\* blocks instead of the order of completion.
ToolsUsedInSourceOrder(res) ==
  SelectSeq(<<"axe-core", "pa11y", "lighthouse">>,
            LAMBDA t : \E k \in 1..Len(res) : res[k].tool = t)

\* toolsUsed: results.map(r => r.tool)
ToolsUsed(res) == [k \in 1..Len(res) |-> res[k].tool]

\* formatOutput(combinedResult, originalCount, issuesByWCAG)
FormatOutput(combinedResult) ==
  [success |-> combinedResult.success,
   toolsUsed |-> combinedResult.toolsUsed,
   issues |-> combinedResult.issues,
   issuesByWCAG |-> combinedResult.issuesByWCAG,
   summary |-> combinedResult.summary,
   individualResults |-> combinedResult.individualResults,
   deduplicatedCount |-> combinedResult.originalCount - Len(combinedResult.issues),
   error |-> combinedResult.error]

\* The combined result is built and returned as a response (lines 176-207);
\* the callback resumes from its await and returns (lines 291-292).
Finish ==
  /\ pc = "awaitAll"
  /\ PromiseAllSettled
  /\ pc' = "done"
  /\ combined' = [success |-> CombinedSuccess(errors),
                  toolsUsed |-> ToolsUsed(results),
                  issues |-> FinalIssues,
                  summary |-> BuildCombinedSummary(SummarisedIssues, input.tools),
                  issuesByWCAG |-> IssuesByWCAG,
                  individualResults |-> IndividualResults(results),
                  error |-> CombinedError(errors),
                  originalCount |-> Len(AllIssues)]
  /\ response' = CreateJsonResponse(FormatOutput(combined'), ~combined'.success)
  /\ returned' = CallbackReturn(response')
  /\ UNCHANGED <<input, task, taskAdapter, analyzeCalls, results, errors,
                 sharedAdapter, currentIgnoreHTTPS, instances, tieBreak,
                 calls, disposal, fnArg, fnRes>>

\* The inputs CombinedAnalysisInputSchema.safeParse does not accept: no
\* target at all.
InvalidInputs ==
  {inp \in [tools : (SUBSET Engines) \ {{}}, url : {FALSE}, html : {FALSE},
            deduplicateResults : BOOLEAN, ignoreHTTPSErrors : BOOLEAN] : TRUE}

\* The callback's safeParse fails (lines 280-288): the handler is not
\* called, an error response is built and the callback returns.
RejectInvalid(inp) ==
  /\ pc = "idle"
  /\ pc' = "invalid"
  /\ input' = inp
  /\ response' = CreateErrorResponse("Invalid input")
  /\ returned' = CallbackReturn(response')
  /\ UNCHANGED <<task, taskAdapter, analyzeCalls, results, errors, combined,
                 sharedAdapter, currentIgnoreHTTPS, instances, tieBreak,
                 calls, disposal, fnArg, fnRes>>

----------------------------------------------------------------------------
(* The aggregator: one analyze-mixed call on a freshly loaded module *)

NoRes == [once |-> <<>>, twice |-> <<>>]

\* No overlapping calls and no disposeAdapters are followed here.
NoCalls == <<>>

NoDisposal == [pc |-> "idle", engines |-> {}]

Init ==
  /\ pc = "idle"
  /\ input = NoInput
  /\ task = [e \in Engines |-> "none"]
  /\ taskAdapter = [e \in Engines |-> 0]
  /\ analyzeCalls = [e \in Engines |-> 0]
  /\ results = <<>>
  /\ errors = <<>>
  /\ combined = NoCombined
  /\ sharedAdapter = [e \in Engines |-> 0]
  /\ currentIgnoreHTTPS = [e \in Engines |-> FALSE]
  /\ instances = [e \in Engines |-> <<>>]
  /\ tieBreak \in {"first", "last"}
  /\ response = NoResponse
  /\ returned = NoReturn
  /\ calls = NoCalls
  /\ disposal = NoDisposal
  /\ fnArg = <<>>
  /\ fnRes = NoRes

Next ==
  \/ \E inp \in Inputs : Invoke(inp)
  \/ \E inp \in InvalidInputs : RejectInvalid(inp)
  \/ LaunchAxe
  \/ LaunchPa11y
  \/ LaunchLighthouse
  \/ \E e \in Engines : SettleResolve(e)
  \/ \E e \in Engines : SettleReject(e)
  \/ Finish

Spec == Init /\ [][Next]_vars

----------------------------------------------------------------------------
(* Overlapping analyze-mixed calls and disposeAdapters.  The calls share   *)
(* the three adapter slots; what each call collects is left to the         *)
(* specification above: here a task only is pending or settled (its result *)
(* or its error pushed).                                                   *)

Calls == 1..MaxCalls

\* The inputs of the overlapping calls: Axe on a url, or Axe and Lighthouse
\* on a url or on html.
CallInputs ==
  {inp \in Inputs :
      /\ inp.deduplicateResults
      /\ inp.tools \in {{"axe-core"}, {"axe-core", "lighthouse"}}
      /\ inp.html => "lighthouse" \in inp.tools}

IdleCall ==
  [pc |-> "idle", input |-> NoInput,
   task |-> [e \in Engines |-> "none"], taskAdapter |-> [e \in Engines |-> 0]]

\* A call is between its entry and its `await Promise.all(...)`: this code
\* has no await, it runs to the end before anything else does.
InSegment(c) == calls[c].pc \in {"launchAxe", "launchPa11y", "launchLighthouse"}

NoSegmentRunning == \A c \in Calls : ~InSegment(c)

\* Entry of the handler for call c: lines 91-110.  The calls are numbered in
\* the order in which they are made.
CallInvoke(c, inp) ==
  /\ NoSegmentRunning
  /\ calls[c].pc = "idle"
  /\ \A b \in Calls : b < c => calls[b].pc # "idle"
  /\ calls' = [calls EXCEPT ![c].pc = "launchAxe", ![c].input = inp]
  /\ UNCHANGED <<pc, input, task, taskAdapter, analyzeCalls, results, errors, combined,
                 sharedAdapter, currentIgnoreHTTPS, instances, tieBreak,
                 response, returned, disposal, fnArg, fnRes>>

\* One `if (toolsToRun.includes(e))` block of call c, up to the task's
\* `await adapter.analyze(...)`.
CallLaunch(c, e) ==
  /\ calls[c].pc = LaunchPc(e)
  /\ \/ /\ e \notin calls[c].input.tools
        /\ calls' = [calls EXCEPT ![c].pc = NextPc(e)]
        /\ UNCHANGED <<sharedAdapter, currentIgnoreHTTPS, instances>>
     \/ /\ e \in calls[c].input.tools
        /\ e = "lighthouse" /\ LighthouseSkipped(calls[c].input)
        /\ calls' = [calls EXCEPT ![c].pc = NextPc(e)]
        /\ UNCHANGED <<sharedAdapter, currentIgnoreHTTPS, instances>>
     \/ /\ e \in calls[c].input.tools
        /\ ~(e = "lighthouse" /\ LighthouseSkipped(calls[c].input))
        /\ \/ /\ GetAdapter(e, calls[c].input.ignoreHTTPSErrors)
              /\ calls' = [calls EXCEPT
                    ![c].pc = NextPc(e),
                    ![c].task[e] = "pending",
                    ![c].taskAdapter[e] =
                       AdapterReturned(e, calls[c].input.ignoreHTTPSErrors)]
           \/ /\ GetAdapterThrows(e, calls[c].input.ignoreHTTPSErrors)
              /\ calls' = [calls EXCEPT ![c].pc = NextPc(e), ![c].task[e] = "settled"]
  /\ UNCHANGED <<pc, input, task, taskAdapter, analyzeCalls, results, errors, combined,
                 tieBreak, response, returned, disposal, fnArg, fnRes>>

\* adapter.analyze of a task of call c settles: the task pushes its result
\* or its catch pushes the error.
CallSettle(c, e) ==
  /\ NoSegmentRunning
  /\ calls[c].pc = "awaitAll"
  /\ calls[c].task[e] = "pending"
  /\ calls' = [calls EXCEPT ![c].task[e] = "settled"]
  /\ UNCHANGED <<pc, input, task, taskAdapter, analyzeCalls, results, errors, combined,
                 sharedAdapter, currentIgnoreHTTPS, instances, tieBreak,
                 response, returned, disposal, fnArg, fnRes>>

\* Promise.all of call c is settled: the call builds its result and
\* returns, which ends its locals.
CallFinish(c) ==
  /\ NoSegmentRunning
  /\ calls[c].pc = "awaitAll"
  /\ \A e \in Engines : calls[c].task[e] # "pending"
  /\ calls' = [calls EXCEPT ![c] = [IdleCall EXCEPT !.pc = "done"]]
  /\ UNCHANGED <<pc, input, task, taskAdapter, analyzeCalls, results, errors, combined,
                 sharedAdapter, currentIgnoreHTTPS, instances, tieBreak,
                 response, returned, disposal, fnArg, fnRes>>

\* disposeAdapters, which is invoked once (when the server shuts down), up to
\* its await: dispose() is invoked on the adapter of every slot that is not
\* null (lines 78-82).
DisposeStart ==
  /\ NoSegmentRunning
  /\ disposal.pc = "idle"
  /\ instances' = [e \in Engines |->
        IF sharedAdapter[e] # 0
        THEN [instances[e] EXCEPT ![sharedAdapter[e]].disposeCalls = @ + 1]
        ELSE instances[e]]
  /\ disposal' = [pc |-> "awaiting",
                  engines |-> {e \in Engines : sharedAdapter[e] # 0}]
  /\ UNCHANGED <<pc, input, task, taskAdapter, analyzeCalls, results, errors, combined,
                 sharedAdapter, currentIgnoreHTTPS, tieBreak,
                 response, returned, calls, fnArg, fnRes>>

\* Every dispose() has resolved: the three slots are set to null (lines
\* 83-85) and disposeAdapters resolves.
DisposeFulfil ==
  /\ NoSegmentRunning
  /\ disposal.pc = "awaiting"
  /\ sharedAdapter' = [e \in Engines |-> 0]
  /\ disposal' = [disposal EXCEPT !.pc = "fulfilled"]
  /\ UNCHANGED <<pc, input, task, taskAdapter, analyzeCalls, results, errors, combined,
                 currentIgnoreHTTPS, instances, tieBreak,
                 response, returned, calls, fnArg, fnRes>>

\* One dispose() rejects: Promise.all rejects, the await throws and
\* disposeAdapters rejects without reaching lines 83-85.
DisposeReject ==
  /\ NoSegmentRunning
  /\ disposal.pc = "awaiting"
  /\ disposal.engines # {}
  /\ disposal' = [disposal EXCEPT !.pc = "rejected"]
  /\ UNCHANGED <<pc, input, task, taskAdapter, analyzeCalls, results, errors, combined,
                 sharedAdapter, currentIgnoreHTTPS, instances, tieBreak,
                 response, returned, calls, fnArg, fnRes>>

AdapterInit ==
  /\ pc = "idle"
  /\ input = NoInput
  /\ task = [e \in Engines |-> "none"]
  /\ taskAdapter = [e \in Engines |-> 0]
  /\ analyzeCalls = [e \in Engines |-> 0]
  /\ results = <<>>
  /\ errors = <<>>
  /\ combined = NoCombined
  /\ sharedAdapter = [e \in Engines |-> 0]
  /\ currentIgnoreHTTPS = [e \in Engines |-> FALSE]
  /\ instances = [e \in Engines |-> <<>>]
  /\ tieBreak = "first"
  /\ response = NoResponse
  /\ returned = NoReturn
  /\ calls = [c \in Calls |-> IdleCall]
  /\ disposal = NoDisposal
  /\ fnArg = <<>>
  /\ fnRes = NoRes

AdapterNext ==
  \/ \E c \in Calls : \E inp \in CallInputs : CallInvoke(c, inp)
  \/ \E c \in Calls : CallLaunch(c, "axe-core")
  \/ \E c \in Calls : CallLaunch(c, "pa11y")
  \/ \E c \in Calls : CallLaunch(c, "lighthouse")
  \/ \E c \in Calls : \E e \in Engines : CallSettle(c, e)
  \/ \E c \in Calls : CallFinish(c)
  \/ DisposeStart
  \/ DisposeFulfil
  \/ DisposeReject

AdapterSpec == AdapterInit /\ [][AdapterNext]_vars

----------------------------------------------------------------------------
(* deduplicateIssues on its own *)

DedupIssues ==
  {Issue("axe-core", "image-alt", "img", None, 0, "1.1.1", TRUE),
   Issue("axe-core", "role-img-alt", "img", None, 0, "1.1.1", TRUE),
   Issue("pa11y", "H37", "img", None, 0, "1.1.1", FALSE),
   Issue("lighthouse", "image-alt", "img", None, 0, "1.1.1", FALSE),
   Issue("axe-core", "region", "main", None, 0, None, FALSE),
   Issue("pa11y", "H37", None, "index.html", 3, "1.1.1", FALSE),
   Issue("pa11y", "G18", "p", None, 0, "1.4.3", FALSE),
   Issue("lighthouse", "color-contrast", "p", None, 0, "1.4.3", TRUE)}

DedupInit ==
  /\ pc = "pure"
  /\ input = NoInput
  /\ task = [e \in Engines |-> "none"]
  /\ taskAdapter = [e \in Engines |-> 0]
  /\ analyzeCalls = [e \in Engines |-> 0]
  /\ results = <<>>
  /\ errors = <<>>
  /\ combined = NoCombined
  /\ sharedAdapter = [e \in Engines |-> 0]
  /\ currentIgnoreHTTPS = [e \in Engines |-> FALSE]
  /\ instances = [e \in Engines |-> <<>>]
  /\ tieBreak \in {"first", "last"}
  /\ response = NoResponse
  /\ returned = NoReturn
  /\ calls = NoCalls
  /\ disposal = NoDisposal
  /\ fnArg \in SeqsUpTo(DedupIssues, MaxLen)
  /\ fnRes = NoRes

ApplyDedup ==
  /\ pc = "pure"
  /\ pc' = "applied"
  /\ fnRes' = [once |-> Dedup(fnArg), twice |-> Dedup(Dedup(fnArg))]
  /\ UNCHANGED <<input, task, taskAdapter, analyzeCalls, results, errors, combined,
                 sharedAdapter, currentIgnoreHTTPS, instances, tieBreak,
                 response, returned, calls, disposal, fnArg>>

DedupNext == ApplyDedup

DedupSpec == DedupInit /\ [][DedupNext]_vars

----------------------------------------------------------------------------
(* Colour analysis (src/src/utils/color-analysis.ts).  Luminance is kept in *)
(* units of 1/100000, a contrast ratio as the fraction it is computed as,   *)
(* thresholds and target ratios in hundredths.                              *)

Rgb(r, g, b) == [r |-> r, g |-> g, b |-> b]

Gray(v) == Rgb(v, v, v)

Abs(n) == IF n < 0 THEN -n ELSE n

Max2(a, b) == IF a >= b THEN a ELSE b

Min2(a, b) == IF a <= b THEN a ELSE b

\* linearize(value) for value = 0..255: value/255 <= 0.03928 ? /12.92 :
\* ((value/255 + 0.055)/1.055)^2.4, tabulated in units of 1/100000.
LinearizeTable ==
  <<
    0, 30, 61, 91, 121, 152, 182, 212, 243, 273, 304, 335,
    368, 402, 439, 478, 518, 561, 605, 651, 700, 750, 802, 857,
    913, 972, 1033, 1096, 1161, 1229, 1298, 1370, 1444, 1521, 1600, 1681,
    1764, 1850, 1938, 2029, 2122, 2217, 2315, 2416, 2519, 2624, 2732, 2843,
    2956, 3071, 3190, 3310, 3434, 3560, 3689, 3820, 3955, 4092, 4231, 4374,
    4519, 4667, 4817, 4971, 5127, 5286, 5448, 5613, 5781, 5951, 6125, 6301,
    6480, 6663, 6848, 7036, 7227, 7421, 7619, 7819, 8022, 8228, 8438, 8650,
    8866, 9084, 9306, 9531, 9759, 9990, 10224, 10462, 10702, 10946, 11193, 11444,
    11697, 11954, 12214, 12477, 12744, 13014, 13287, 13563, 13843, 14126, 14413, 14703,
    14996, 15293, 15593, 15896, 16203, 16513, 16827, 17144, 17465, 17789, 18116, 18447,
    18782, 19120, 19462, 19807, 20156, 20508, 20864, 21223, 21586, 21953, 22323, 22697,
    23074, 23455, 23840, 24228, 24620, 25016, 25415, 25818, 26225, 26636, 27050, 27468,
    27889, 28315, 28744, 29177, 29614, 30054, 30499, 30947, 31399, 31855, 32314, 32778,
    33245, 33716, 34191, 34670, 35153, 35640, 36131, 36625, 37124, 37626, 38133, 38643,
    39157, 39676, 40198, 40724, 41254, 41789, 42327, 42869, 43415, 43966, 44520, 45079,
    45641, 46208, 46778, 47353, 47932, 48515, 49102, 49693, 50289, 50888, 51492, 52100,
    52712, 53328, 53948, 54572, 55201, 55834, 56471, 57112, 57758, 58408, 59062, 59720,
    60383, 61050, 61721, 62396, 63076, 63760, 64448, 65141, 65837, 66539, 67244, 67954,
    68669, 69387, 70110, 70838, 71569, 72306, 73046, 73791, 74540, 75294, 76052, 76815,
    77582, 78354, 79130, 79910, 80695, 81485, 82279, 83077, 83880, 84687, 85499, 86316,
    87137, 87962, 88792, 89627, 90466, 91310, 92158, 93011, 93869, 94731, 95597, 96469,
    97345, 98225, 99110, 100000
  >>

Linearize(value) == LinearizeTable[value + 1]

\* 0.2126 * rLin + 0.7152 * gLin + 0.0722 * bLin
GetLuminance(rgb) ==
  (2126 * Linearize(rgb.r) + 7152 * Linearize(rgb.g) + 722 * Linearize(rgb.b)
     + 5000) \div 10000

\* Variant: the luminances are not ordered before the division.
GetContrastRatioUnordered(fg, bg) ==
  [num |-> GetLuminance(fg) + 5000, den |-> GetLuminance(bg) + 5000]

\* (lighter + 0.05) / (darker + 0.05)
GetContrastRatio(fg, bg) ==
  LET fgLuminance == GetLuminance(fg)
      bgLuminance == GetLuminance(bg)
      lighter == Max2(fgLuminance, bgLuminance)
      darker == Min2(fgLuminance, bgLuminance)
  IN [num |-> lighter + 5000, den |-> darker + 5000]

\* ratio < t, ratio >= t and |ratio - t| < 0.01 for t in hundredths
RatioBelow(ratio, t) == ratio.num * 100 < t * ratio.den

RatioAtLeast(ratio, t) == ratio.num * 100 >= t * ratio.den

RatioWithinHundredth(ratio, t) == Abs(ratio.num * 100 - t * ratio.den) < ratio.den

\* WCAG_THRESHOLDS, in hundredths
AA_NORMAL == 450

AA_LARGE == 300

AAA_NORMAL == 700

AAA_LARGE == 450

NON_TEXT == 300

\* A lightness l in [0, 1] is channel/255 (what rgbToHsl gives for a grey),
\* percent/100 (what parseHsl reads) or a binary fraction
\* (a * Limb^2 + b * Limb + c) / Limb^3, which holds every midpoint of 50
\* halvings of [0, 1] exactly.
Limb == 131072

LightnessOfChannel(v) == [form |-> "channel", n |-> v, a |-> 0, b |-> 0, c |-> 0]

LightnessOfPercent(v) == [form |-> "percent", n |-> v, a |-> 0, b |-> 0, c |-> 0]

BinaryLightness(a, b, c) == [form |-> "binary", n |-> 0, a |-> a, b |-> b, c |-> c]

\* (low + high) / 2
Midpoint(low, high) ==
  LET c == low.c + high.c
      b == low.b + high.b + c \div Limb
      a == low.a + high.a + b \div Limb
  IN BinaryLightness(a \div 2,
                     ((a % 2) * Limb + (b % Limb)) \div 2,
                     ((b % 2) * Limb + (c % Limb)) \div 2)

\* Math.round(l * 255)
RoundTimes255(l) ==
  CASE l.form = "channel" -> l.n
    [] l.form = "percent" -> (l.n * 510 + 100) \div 200
    [] l.form = "binary" ->
         (l.a * 255 + (l.b * 255 + (l.c * 255) \div Limb) \div Limb + Limb \div 2)
            \div Limb

\* rgbToHsl of a grey: max === min gives { h: 0, s: 0, l }
RgbToHsl(rgb) == [h |-> 0, s |-> 0, l |-> LightnessOfChannel(rgb.r)]

\* hslToRgb of a colour without saturation: s === 0 gives the grey
\* Math.round(l * 255)
HslToRgb(hsl) ==
  CASE hsl.s = 0 -> Gray(RoundTimes255(hsl.l))

MaxIterations == 50

RECURSIVE SuggestLoop(_, _, _, _, _)
\* while (iterations < maxIterations) { ... } of suggestFixedColor; st holds
\* low, high, bestL and iterations.
SuggestLoop(st, fgHsl, bg, targetRatio, shouldDarken) ==
  IF st.iterations >= MaxIterations THEN st
  ELSE
    LET mid == Midpoint(st.low, st.high)
        testRgb == HslToRgb([fgHsl EXCEPT !.l = mid])
        ratio == GetContrastRatio(testRgb, bg)
        testLuminance == GetLuminance(testRgb)
        bgLuminance == GetLuminance(bg)
        highMid == [st EXCEPT !.high = mid, !.iterations = @ + 1]
        highMidBest == [st EXCEPT !.high = mid, !.bestL = mid, !.iterations = @ + 1]
        lowMid == [st EXCEPT !.low = mid, !.iterations = @ + 1]
        lowMidBest == [st EXCEPT !.low = mid, !.bestL = mid, !.iterations = @ + 1]
        next == IF shouldDarken
                THEN IF RatioBelow(ratio, targetRatio) THEN highMid ELSE lowMidBest
                ELSE IF testLuminance > bgLuminance
                     THEN IF RatioBelow(ratio, targetRatio) THEN lowMid ELSE highMidBest
                     ELSE IF RatioBelow(ratio, targetRatio) THEN highMid ELSE lowMidBest
    IN IF RatioWithinHundredth(ratio, targetRatio)
       THEN [st EXCEPT !.bestL = mid]
       ELSE SuggestLoop(next, fgHsl, bg, targetRatio, shouldDarken)

\* suggestFixedColor(fg, bg, targetRatio), with the state the loop ended in
SuggestFixedColor(fg, bg, targetRatio) ==
  LET fgHsl == RgbToHsl(fg)
      shouldDarken == GetLuminance(fg) > GetLuminance(bg)
      final == SuggestLoop([low |-> BinaryLightness(0, 0, 0),
                            high |-> BinaryLightness(Limb, 0, 0),
                            bestL |-> fgHsl.l, iterations |-> 0],
                           fgHsl, bg, targetRatio, shouldDarken)
  IN [color |-> HslToRgb([fgHsl EXCEPT !.l = final.bestL]),
      iterations |-> final.iterations]

----------------------------------------------------------------------------
(* parseColor.  A string is the sequence of its characters. *)

Whitespace == {" ", "\t"}

DigitChars ==
  <<"0", "1", "2", "3", "4", "5", "6", "7", "8", "9", "a", "b", "c", "d", "e", "f">>

UpperCase == <<"A", "B", "C", "D", "E", "F", "G", "H", "I", "J", "K", "L", "M", "N", "O", "P", "Q", "R", "S", "T", "U", "V", "W", "X", "Y", "Z">>

LowerCase == <<"a", "b", "c", "d", "e", "f", "g", "h", "i", "j", "k", "l", "m", "n", "o", "p", "q", "r", "s", "t", "u", "v", "w", "x", "y", "z">>

ToLowerCaseChar(ch) ==
  IF \E i \in 1..Len(UpperCase) : UpperCase[i] = ch
  THEN LowerCase[CHOOSE i \in 1..Len(UpperCase) : UpperCase[i] = ch]
  ELSE ch

\* color.toLowerCase()
ToLowerCase(s) == [i \in 1..Len(s) |-> ToLowerCaseChar(s[i])]

\* The first position from i on whose character is not in class
\* (Len(s) + 1 when there is none); i is at most Len(s) + 1.
SkipWhile(s, i, class) ==
  CHOOSE j \in i..(Len(s) + 1) :
     /\ \A k \in i..(j - 1) : s[k] \in class
     /\ j = Len(s) + 1 \/ s[j] \notin class

\* color.trim()
Trim(s) ==
  LET first == SkipWhile(s, 1, Whitespace)
      last == CHOOSE j \in 0..Len(s) :
                /\ \A k \in (j + 1)..Len(s) : s[k] \in Whitespace
                /\ j = 0 \/ s[j] \notin Whitespace
  IN IF first > Len(s) THEN <<>> ELSE SubSeq(s, first, last)

IsAt(s, i, ch) == i <= Len(s) /\ s[i] = ch

StartsWithAt(s, i, lit) ==
  i + Len(lit) - 1 <= Len(s) /\ SubSeq(s, i, i + Len(lit) - 1) = lit

\* Value of a digit character in the radix, -1 when it is no digit of it.
DigitValue(ch, radix) ==
  LET lower == ToLowerCaseChar(ch)
  IN IF \E d \in 1..radix : DigitChars[d] = lower
     THEN (CHOOSE d \in 1..radix : DigitChars[d] = lower) - 1
     ELSE -1

RadixDigits(radix) ==
  {DigitChars[d] : d \in 1..radix} \cup
  {ch \in {UpperCase[i] : i \in 1..Len(UpperCase)} : DigitValue(ch, radix) >= 0}

RECURSIVE DigitsValue(_, _)
DigitsValue(digits, radix) ==
  IF digits = <<>> THEN 0
  ELSE DigitsValue(SubSeq(digits, 1, Len(digits) - 1), radix) * radix
         + DigitValue(digits[Len(digits)], radix)

NaN == [nan |-> TRUE, n |-> 0]

\* parseInt(s, radix): leading white space, a sign, for radix 16 a 0x prefix,
\* then the longest run of digits; NaN when that run is empty.  What follows
\* the run is ignored.
ParseInt(s, radix) ==
  LET start == SkipWhile(s, 1, Whitespace)
      negative == IsAt(s, start, "-")
      afterSign == IF IsAt(s, start, "+") \/ IsAt(s, start, "-")
                   THEN start + 1 ELSE start
      afterPrefix == IF radix = 16 /\ IsAt(s, afterSign, "0")
                        /\ (IsAt(s, afterSign + 1, "x") \/ IsAt(s, afterSign + 1, "X"))
                     THEN afterSign + 2 ELSE afterSign
      end == SkipWhile(s, afterPrefix, RadixDigits(radix))
      magnitude == DigitsValue(SubSeq(s, afterPrefix, end - 1), radix)
  IN IF end = afterPrefix THEN NaN
     ELSE [nan |-> FALSE, n |-> IF negative THEN -magnitude ELSE magnitude]

\* What parseColor returns: null, an object with r, g and b, or an object
\* without them.
Null == [kind |-> "null"]

RgbResult(r, g, b) == [kind |-> "rgb", r |-> r, g |-> g, b |-> b]

EmptyObject == [kind |-> "object"]

NAMED_COLORS ==
  (<<"b", "l", "a", "c", "k">> :> Rgb(0, 0, 0)) @@
  (<<"w", "h", "i", "t", "e">> :> Rgb(255, 255, 255)) @@
  (<<"r", "e", "d">> :> Rgb(255, 0, 0)) @@
  (<<"g", "r", "e", "e", "n">> :> Rgb(0, 128, 0)) @@
  (<<"b", "l", "u", "e">> :> Rgb(0, 0, 255)) @@
  (<<"y", "e", "l", "l", "o", "w">> :> Rgb(255, 255, 0)) @@
  (<<"c", "y", "a", "n">> :> Rgb(0, 255, 255)) @@
  (<<"m", "a", "g", "e", "n", "t", "a">> :> Rgb(255, 0, 255)) @@
  (<<"g", "r", "a", "y">> :> Rgb(128, 128, 128)) @@
  (<<"g", "r", "e", "y">> :> Rgb(128, 128, 128)) @@
  (<<"s", "i", "l", "v", "e", "r">> :> Rgb(192, 192, 192)) @@
  (<<"m", "a", "r", "o", "o", "n">> :> Rgb(128, 0, 0)) @@
  (<<"o", "l", "i", "v", "e">> :> Rgb(128, 128, 0)) @@
  (<<"l", "i", "m", "e">> :> Rgb(0, 255, 0)) @@
  (<<"a", "q", "u", "a">> :> Rgb(0, 255, 255)) @@
  (<<"t", "e", "a", "l">> :> Rgb(0, 128, 128)) @@
  (<<"n", "a", "v", "y">> :> Rgb(0, 0, 128)) @@
  (<<"f", "u", "c", "h", "s", "i", "a">> :> Rgb(255, 0, 255)) @@
  (<<"p", "u", "r", "p", "l", "e">> :> Rgb(128, 0, 128)) @@
  (<<"o", "r", "a", "n", "g", "e">> :> Rgb(255, 165, 0)) @@
  (<<"t", "r", "a", "n", "s", "p", "a", "r", "e", "n", "t">> :> Rgb(0, 0, 0))

\* The lower-case property names NAMED_COLORS inherits from Object.prototype:
\* NAMED_COLORS[name] is a function or an object for them, and spreading it
\* gives an object without own properties.
InheritedProperties == {<<"c", "o", "n", "s", "t", "r", "u", "c", "t", "o", "r">>, <<"_", "_", "p", "r", "o", "t", "o", "_", "_">>}

\* hex.replace('#', '')
RemoveFirstHash(hex) ==
  IF \E i \in 1..Len(hex) : hex[i] = "#"
  THEN LET i == CHOOSE k \in 1..Len(hex) :
                  hex[k] = "#" /\ \A m \in 1..(k - 1) : hex[m] # "#"
       IN SubSeq(hex, 1, i - 1) \o SubSeq(hex, i + 1, Len(hex))
  ELSE hex

\* parseInt(pair, 16) of parseHex
ParseHexChannel(pair) == ParseInt(pair, 16)

ParseHex(hex) ==
  LET cleanHex == RemoveFirstHash(hex)
      short == Len(cleanHex) = 3
      r == IF short THEN ParseHexChannel(<<cleanHex[1], cleanHex[1]>>)
           ELSE ParseHexChannel(SubSeq(cleanHex, 1, 2))
      g == IF short THEN ParseHexChannel(<<cleanHex[2], cleanHex[2]>>)
           ELSE ParseHexChannel(SubSeq(cleanHex, 3, 4))
      b == IF short THEN ParseHexChannel(<<cleanHex[3], cleanHex[3]>>)
           ELSE ParseHexChannel(SubSeq(cleanHex, 5, 6))
  IN IF Len(cleanHex) \notin {3, 6, 8} THEN Null
     ELSE IF r.nan \/ g.nan \/ b.nan THEN Null
     ELSE RgbResult(r.n, g.n, b.n)

DecimalDigits == {DigitChars[d] : d \in 1..10}

\* A match, starting at position i, of
\*   name a? \s* \( \s* (\d+) \s* , \s* (\d+)%? \s* , \s* (\d+)%? \s*
\*   (?: , \s* [\d.]+ )? \s* \)
\* where the two % are required when percent holds and absent otherwise.
MatchAt(s, i, name, percent) ==
  LET afterName == i + Len(name)
      afterA == IF IsAt(s, afterName, "a") THEN afterName + 1 ELSE afterName
      open == SkipWhile(s, afterA, Whitespace)
      first == SkipWhile(s, open + 1, Whitespace)
      firstEnd == SkipWhile(s, first, DecimalDigits)
      comma1 == SkipWhile(s, firstEnd, Whitespace)
      second == SkipWhile(s, comma1 + 1, Whitespace)
      secondEnd == SkipWhile(s, second, DecimalDigits)
      afterSecond == IF percent THEN secondEnd + 1 ELSE secondEnd
      comma2 == SkipWhile(s, afterSecond, Whitespace)
      third == SkipWhile(s, comma2 + 1, Whitespace)
      thirdEnd == SkipWhile(s, third, DecimalDigits)
      afterThird == IF percent THEN thirdEnd + 1 ELSE thirdEnd
      tail == SkipWhile(s, afterThird, Whitespace)
      alpha == SkipWhile(s, tail + 1, Whitespace)
      alphaEnd == SkipWhile(s, alpha, DecimalDigits \cup {"."})
      close == SkipWhile(s, alphaEnd, Whitespace)
      ok == /\ StartsWithAt(s, i, name)
            /\ IsAt(s, open, "(")
            /\ firstEnd > first
            /\ IsAt(s, comma1, ",")
            /\ secondEnd > second
            /\ percent => IsAt(s, secondEnd, "%")
            /\ IsAt(s, comma2, ",")
            /\ thirdEnd > third
            /\ percent => IsAt(s, thirdEnd, "%")
            /\ \/ IsAt(s, tail, ")")
               \/ IsAt(s, tail, ",") /\ alphaEnd > alpha /\ IsAt(s, close, ")")
  IN IF ok
     THEN [ok |-> TRUE, groups |-> <<SubSeq(s, first, firstEnd - 1),
                                     SubSeq(s, second, secondEnd - 1),
                                     SubSeq(s, third, thirdEnd - 1)>>]
     ELSE [ok |-> FALSE, groups |-> <<>>]

\* color.match(...): the leftmost match
Match(s, name, percent) ==
  IF \E i \in 1..Len(s) : MatchAt(s, i, name, percent).ok
  THEN MatchAt(s, CHOOSE i \in 1..Len(s) :
                     /\ MatchAt(s, i, name, percent).ok
                     /\ \A k \in 1..(i - 1) : ~MatchAt(s, k, name, percent).ok,
               name, percent)
  ELSE [ok |-> FALSE, groups |-> <<>>]

\* parseInt(rgbMatch[k], 10)
RgbChannel(digits) == ParseInt(digits, 10).n

ParseRgb(color) ==
  LET rgbMatch == Match(color, <<"r", "g", "b">>, FALSE)
  IN IF rgbMatch.ok
     THEN RgbResult(RgbChannel(rgbMatch.groups[1]), RgbChannel(rgbMatch.groups[2]),
                    RgbChannel(rgbMatch.groups[3]))
     ELSE Null

\* s and l stay percentages: s = groups[2] / 100, l = groups[3] / 100
ParseHsl(color) ==
  LET hslMatch == Match(color, <<"h", "s", "l">>, TRUE)
  IN IF hslMatch.ok
     THEN LET rgb == HslToRgb([h |-> ParseInt(hslMatch.groups[1], 10).n,
                               s |-> ParseInt(hslMatch.groups[2], 10).n,
                               l |-> LightnessOfPercent(
                                       ParseInt(hslMatch.groups[3], 10).n)])
          IN RgbResult(rgb.r, rgb.g, rgb.b)
     ELSE Null

\* parseColor(color); color.isString is typeof color === 'string', and a
\* value that is no string has no characters.
ParseColor(color) ==
  IF ~color.isString \/ color.chars = <<>> THEN Null
  ELSE LET normalizedColor == ToLowerCase(Trim(color.chars))
       IN IF normalizedColor \in DOMAIN NAMED_COLORS
          THEN LET rgb == NAMED_COLORS[normalizedColor]
               IN RgbResult(rgb.r, rgb.g, rgb.b)
          ELSE IF normalizedColor \in InheritedProperties THEN EmptyObject
          ELSE IF StartsWithAt(normalizedColor, 1, <<"#">>)
               THEN ParseHex(normalizedColor)
          ELSE IF StartsWithAt(normalizedColor, 1, <<"r", "g", "b">>)
               THEN ParseRgb(normalizedColor)
          ELSE IF StartsWithAt(normalizedColor, 1, <<"h", "s", "l">>)
               THEN ParseHsl(normalizedColor)
          ELSE Null

\* Variant: the threshold itself does not pass.
MeetsWCAGAbove(ratio, level, isLargeText) ==
  IF level = "AA"
  THEN IF isLargeText THEN ratio > AA_LARGE ELSE ratio > AA_NORMAL
  ELSE IF isLargeText THEN ratio > AAA_LARGE ELSE ratio > AAA_NORMAL

\* meetsWCAG(ratio, level, isLargeText), ratio in hundredths
MeetsWCAG(ratio, level, isLargeText) ==
  IF level = "AA"
  THEN IF isLargeText THEN ratio >= AA_LARGE ELSE ratio >= AA_NORMAL
  ELSE IF isLargeText THEN ratio >= AAA_LARGE ELSE ratio >= AAA_NORMAL

\* meetsWCAGNonText(ratio)
MeetsWCAGNonText(ratio) == ratio >= NON_TEXT

\* getRequiredRatio(level, isLargeText)
GetRequiredRatio(level, isLargeText) ==
  IF level = "AA"
  THEN IF isLargeText THEN AA_LARGE ELSE AA_NORMAL
  ELSE IF isLargeText THEN AAA_LARGE ELSE AAA_NORMAL

\* Variant: bold text counts as large from 18 px.
IsLargeTextBoldFrom18(fontSize, fontWeight) ==
  LET isBold == fontWeight >= 700
  IN IF isBold THEN fontSize >= 180 ELSE fontSize >= 240

\* isLargeText(fontSize, fontWeight), fontSize in tenths of a pixel
IsLargeText(fontSize, fontWeight) ==
  LET isBold == fontWeight >= 700
  IN IF isBold THEN fontSize >= 185 ELSE fontSize >= 240

\* APCA_THRESHOLDS
BODY_TEXT == 75

LARGE_TEXT == 60

APCA_NON_TEXT == 45

\* The threshold of a category of meetsAPCA.
APCAThreshold(category) ==
  CASE category = "body" -> BODY_TEXT
    [] category = "large" -> LARGE_TEXT
    [] category = "nonText" -> APCA_NON_TEXT

\* Variant: the signed value is compared.
MeetsAPCASigned(lc, category) == lc >= APCAThreshold(category)

\* meetsAPCA(lc, category): the absolute value is compared.
MeetsAPCA(lc, category) == Abs(lc) >= APCAThreshold(category)

\* getRequiredAPCALightness(isLargeText)
GetRequiredAPCALightness(isLargeText) ==
  IF isLargeText THEN LARGE_TEXT ELSE BODY_TEXT

RECURSIVE ToString16(_)
\* n.toString(16) of an integer n
ToString16(n) ==
  IF n < 0 THEN <<"-">> \o ToString16(-n)
  ELSE IF n < 16 THEN <<DigitChars[n + 1]>>
  ELSE ToString16(n \div 16) \o <<DigitChars[(n % 16) + 1]>>

\* s.padStart(targetLength, ch)
PadStart(s, targetLength, ch) ==
  IF Len(s) >= targetLength THEN s
  ELSE [i \in 1..(targetLength - Len(s)) |-> ch] \o s

\* Math.round(n) of a number given in tenths: the nearest integer, a half
\* going up.
MathRound(tenths) == (tenths + 5) \div 10

\* Variant: the channel is encoded without being clamped.
ToHexUnclamped(n) == PadStart(ToString16(MathRound(n)), 2, "0")

\* toHex(n) of rgbToHex, n in tenths
ToHex(n) ==
  LET clamped == Max2(0, Min2(255, MathRound(n)))
  IN PadStart(ToString16(clamped), 2, "0")

\* rgbToHex(rgb), the channels of rgb in tenths
RgbToHex(rgb) == <<"#">> \o ToHex(rgb.r) \o ToHex(rgb.g) \o ToHex(rgb.b)

----------------------------------------------------------------------------
(* suggestFixedColor, one pass of its loop at a time *)

\* The locals of suggestFixedColor before the loop: lines 253-264.  broke
\* tells that the loop was left by `break`.
SuggestStart(fg) ==
  [low |-> BinaryLightness(0, 0, 0), high |-> BinaryLightness(Limb, 0, 0),
   bestL |-> RgbToHsl(fg).l, iterations |-> 0, broke |-> FALSE]

\* Variant: the pass that finds the ratio too low for a foreground lighter
\* than the background does not count itself.
SuggestPassUncounted(st, fg, bg, targetRatio) ==
  LET fgHsl == RgbToHsl(fg)
      shouldDarken == GetLuminance(fg) > GetLuminance(bg)
      mid == Midpoint(st.low, st.high)
      testRgb == HslToRgb([fgHsl EXCEPT !.l = mid])
      ratio == GetContrastRatio(testRgb, bg)
      testLuminance == GetLuminance(testRgb)
      bgLuminance == GetLuminance(bg)
      highMid == [st EXCEPT !.high = mid, !.iterations = @ + 1]
      highMidBest == [st EXCEPT !.high = mid, !.bestL = mid, !.iterations = @ + 1]
      lowMid == [st EXCEPT !.low = mid, !.iterations = @ + 1]
      lowMidBest == [st EXCEPT !.low = mid, !.bestL = mid, !.iterations = @ + 1]
  IN IF RatioWithinHundredth(ratio, targetRatio)
     THEN [st EXCEPT !.bestL = mid, !.broke = TRUE]
     ELSE IF shouldDarken
          THEN IF RatioBelow(ratio, targetRatio)
               THEN [st EXCEPT !.high = mid]
               ELSE lowMidBest
          ELSE IF testLuminance > bgLuminance
               THEN IF RatioBelow(ratio, targetRatio) THEN lowMid ELSE highMidBest
               ELSE IF RatioBelow(ratio, targetRatio) THEN highMid ELSE lowMidBest

\* One pass of the loop body, lines 267-304, from the locals st.
SuggestPass(st, fg, bg, targetRatio) ==
  LET fgHsl == RgbToHsl(fg)
      shouldDarken == GetLuminance(fg) > GetLuminance(bg)
      mid == Midpoint(st.low, st.high)
      testRgb == HslToRgb([fgHsl EXCEPT !.l = mid])
      ratio == GetContrastRatio(testRgb, bg)
      testLuminance == GetLuminance(testRgb)
      bgLuminance == GetLuminance(bg)
      highMid == [st EXCEPT !.high = mid, !.iterations = @ + 1]
      highMidBest == [st EXCEPT !.high = mid, !.bestL = mid, !.iterations = @ + 1]
      lowMid == [st EXCEPT !.low = mid, !.iterations = @ + 1]
      lowMidBest == [st EXCEPT !.low = mid, !.bestL = mid, !.iterations = @ + 1]
  IN IF RatioWithinHundredth(ratio, targetRatio)
     THEN [st EXCEPT !.bestL = mid, !.broke = TRUE]
     ELSE IF shouldDarken
          THEN IF RatioBelow(ratio, targetRatio) THEN highMid ELSE lowMidBest
          ELSE IF testLuminance > bgLuminance
               THEN IF RatioBelow(ratio, targetRatio) THEN lowMid ELSE highMidBest
               ELSE IF RatioBelow(ratio, targetRatio) THEN highMid ELSE lowMidBest

\* while (iterations < maxIterations), unless the body has left by break
LoopContinues(st) == st.iterations < MaxIterations /\ ~st.broke

\* return hslToRgb({ ...fgHsl, l: bestL }), with the locals the loop ended in
SuggestReturned(st, fg) ==
  [color |-> HslToRgb([RgbToHsl(fg) EXCEPT !.l = st.bestL]),
   low |-> st.low, high |-> st.high, bestL |-> st.bestL,
   iterations |-> st.iterations, broke |-> st.broke]

----------------------------------------------------------------------------
(* getWCAGContrastResult *)

\* Math.round(ratio * 100), the reported ratio in hundredths
RoundedRatio(ratio) == (200 * ratio.num + ratio.den) \div (2 * ratio.den)

\* getWCAGContrastResult(fg, bg): the ratio is rounded to two decimals, the
\* flags compare the ratio before rounding.
GetWCAGContrastResult(fg, bg) ==
  LET ratio == GetContrastRatio(fg, bg)
  IN [ratio |-> RoundedRatio(ratio),
      meetsAA |-> RatioAtLeast(ratio, AA_NORMAL),
      meetsAAA |-> RatioAtLeast(ratio, AAA_NORMAL),
      meetsAALargeText |-> RatioAtLeast(ratio, AA_LARGE),
      meetsAAALargeText |-> RatioAtLeast(ratio, AAA_LARGE)]

----------------------------------------------------------------------------
(* The colour functions on their own *)

GrayLevels == {0, 50, 100, 118, 150, 200, 255}

Foregrounds == {Gray(v) : v \in GrayLevels}

Backgrounds ==
  {Gray(v) : v \in GrayLevels}
  \cup {Rgb(255, 0, 0), Rgb(0, 0, 255), Rgb(255, 255, 0), Rgb(0, 102, 204)}

TargetRatios == {AA_LARGE, AA_NORMAL, AAA_NORMAL}

SuggestArgs ==
  {[fn |-> "suggestFixedColor", fg |-> fg, bg |-> bg, targetRatio |-> t] :
      fg \in Foregrounds, bg \in Backgrounds, t \in TargetRatios}

\* Texts handed to parseColor: every word over HexAlphabet after a '#', the
\* rgb() and hsl() notations over some numerals, and some further texts.
MaxHexLen == 8

HexAlphabet == {"0", "F", "g"}

HexTexts == {<<"#">> \o w : w \in SeqsUpTo(HexAlphabet, MaxHexLen)}

Numerals == {<<"0">>, <<"0", "7">>, <<"2", "5", "5">>, <<"2", "5", "6">>, <<"3", "0", "0">>}

Spaces == {<<>>, <<" ">>}

Alphas == {<<>>, <<",", "0", ".", "5">>}

RgbTexts ==
  {<<"r", "g", "b">> \o (IF alpha = <<>> THEN <<>> ELSE <<"a">>) \o <<"(">>
     \o r \o <<",">> \o sp \o g \o sp \o <<",">> \o b \o alpha \o <<")">> :
       r \in Numerals, g \in Numerals, b \in Numerals, sp \in Spaces,
       alpha \in Alphas}

HslTexts ==
  {<<"h", "s", "l", "(">> \o h \o <<",">> \o sp \o <<"0", "%", ",">> \o sp
     \o l \o <<"%", ")">> :
       h \in Numerals, l \in Numerals \cup {<<"5", "0">>, <<"1", "0", "0">>},
       sp \in Spaces}

OtherTexts ==
  {<<>>,
   <<"r", "e", "d">>,
   <<"R", "E", "D">>,
   <<" ", "G", "r", "e", "y", " ">>,
   <<"o", "r", "a", "n", "g", "e">>,
   <<"t", "r", "a", "n", "s", "p", "a", "r", "e", "n", "t">>,
   <<"n", "a", "v", "y">>,
   <<"c", "o", "n", "s", "t", "r", "u", "c", "t", "o", "r">>,
   <<"_", "_", "p", "r", "o", "t", "o", "_", "_">>,
   <<"i", "n", "v", "a", "l", "i", "d">>,
   <<" ">>,
   <<"#", "1", "2", "3", "4", "5">>,
   <<"#", "0", "a", "1", "B", "2", "c">>,
   <<"#", "0", "A", "1", "b", "2", "C", "8", "0">>,
   <<" ", "#", "f", "f", "f", " ">>,
   <<"#", "-", "f", "-", "f", "-", "f">>,
   <<"#", "0", "x", "0", "x", "0", "x">>,
   <<"#", " ", "f", "0", "0", "0", "0">>,
   <<"#", "#", "f", "f", "f">>,
   <<"#", "f", "f", "#", "0", "0", "0">>,
   <<"r", "g", "b", " ", "1", " ", "2", " ", "3">>,
   <<"r", "g", "b", "(", "1", ",", "2", ")">>,
   <<"r", "g", "b", "(", "a", ",", "b", ",", "c", ")">>,
   <<"r", "g", "b", "(", "-", "1", ",", "0", ",", "0", ")">>,
   <<"r", "g", "b", "(", "1", ".", "5", ",", "0", ",", "0", ")">>,
   <<"R", "G", "B", "(", " ", "1", "2", " ", ",", " ", "3", "4", " ", ",", " ", "5", "6", " ", ")">>,
   <<"r", "g", "b", "a", "(", "1", ",", "2", ",", "3", ",", ")">>,
   <<"r", "g", "b", "a", "(", "1", ",", "2", ",", "3", ",", "0", ".", "5">>,
   <<"r", "g", "b", "x", " ", "r", "g", "b", "(", "1", ",", "2", ",", "3", ")">>,
   <<"r", "g", "b", "(", "0", ",", "0", ",", "0", ",", "0", ".", "5", ")", " ">>,
   <<"h", "s", "l", "(", "0", ",", "0", ",", "5", "0", ")">>,
   <<"h", "s", "l", "(", "0", ",", " ", "0", "%", ",", " ", "5", "0", ")">>,
   <<"h", "s", "l", "a", "(", "0", ",", " ", "0", "%", ",", " ", "5", "0", "%", ",", " ", "0", ".", "5", ")">>,
   <<"H", "S", "L", "(", "1", "2", "0", ",", "0", "%", ",", "2", "5", "%", ")">>,
   <<"h", "s", "l", " ", "(", "0", ",", "0", "%", ",", "1", "0", "0", "%", ")">>}

ParseArgs ==
  {[fn |-> "parseColor", color |-> [isString |-> TRUE, chars |-> t]] :
      t \in HexTexts \cup RgbTexts \cup HslTexts \cup OtherTexts}
  \cup {[fn |-> "parseColor", color |-> [isString |-> FALSE, chars |-> <<>>]]}

ChannelLevels == {0, 10, 128, 255}

Colours == {Rgb(r, g, b) : r \in ChannelLevels, g \in ChannelLevels, b \in ChannelLevels}

ContrastArgs == {[fn |-> "getContrastRatio", x |-> x, y |-> y] : x \in Colours, y \in Colours}

\* Ratios in hundredths, at and around the thresholds.
Ratios == {100, 299, 300, 301, 449, 450, 451, 699, 700, 701, 2100}

Levels == {"AA", "AAA"}

MeetsArgs ==
  {[fn |-> "meetsWCAG", ratio |-> r, level |-> l, isLargeText |-> t] :
      r \in Ratios, l \in Levels, t \in BOOLEAN}

\* Font sizes in tenths of a pixel and font weights, at and around the limits.
FontSizes == {0, 120, 180, 184, 185, 186, 239, 240, 241, 320}

FontWeights == {100, 400, 699, 700, 701, 900}

LargeTextArgs ==
  {[fn |-> "isLargeText", fontSize |-> s, fontWeight |-> w] :
      s \in FontSizes, w \in FontWeights}

\* Lc values at and around the thresholds, of both signs.
LcValues ==
  {-108, -80, -75, -74, -60, -59, -45, -44, 0, 44, 45, 59, 60, 74, 75, 80, 106}

APCACategories == {"body", "large", "nonText"}

APCAArgs ==
  {[fn |-> "meetsAPCA", lc |-> lc, category |-> c, isLargeText |-> t] :
      lc \in LcValues, c \in APCACategories, t \in BOOLEAN}

\* Channel numbers in tenths: below 0, in range, above 255, whole and not.
HexChannels == {-100, -4, 0, 90, 125, 160, 2550, 2560, 3000}

HexArgs ==
  {[fn |-> "rgbToHex", rgb |-> Rgb(r, g, b)] :
      r \in HexChannels, g \in HexChannels, b \in HexChannels}

\* Calls of suggestFixedColor that are followed pass by pass.
BisectionArgs ==
  {[fn |-> "bisection", fg |-> fg, bg |-> bg, targetRatio |-> t] :
      fg \in Foregrounds, bg \in Backgrounds, t \in TargetRatios}

\* Pairs of greys handed to getWCAGContrastResult; some of their ratios lie
\* within half a hundredth of a threshold.
ResultLevels == {0, 7, 36, 89, 119, 174, 200, 255}

ResultArgs ==
  {[fn |-> "getWCAGContrastResult", fg |-> Gray(v), bg |-> Gray(w)] :
      v \in ResultLevels, w \in ResultLevels}

ColorArgs == SuggestArgs \cup ParseArgs \cup ContrastArgs \cup MeetsArgs \cup LargeTextArgs \cup APCAArgs \cup HexArgs \cup BisectionArgs \cup ResultArgs

ColorInit ==
  /\ pc = "pure"
  /\ input = NoInput
  /\ task = [e \in Engines |-> "none"]
  /\ taskAdapter = [e \in Engines |-> 0]
  /\ analyzeCalls = [e \in Engines |-> 0]
  /\ results = <<>>
  /\ errors = <<>>
  /\ combined = NoCombined
  /\ sharedAdapter = [e \in Engines |-> 0]
  /\ currentIgnoreHTTPS = [e \in Engines |-> FALSE]
  /\ instances = [e \in Engines |-> <<>>]
  /\ tieBreak = "first"
  /\ response = NoResponse
  /\ returned = NoReturn
  /\ calls = NoCalls
  /\ disposal = NoDisposal
  /\ fnArg \in ColorArgs
  /\ fnRes = NoRes

\* fnRes becomes res for an argument of the function fn.
Apply(fn, res) ==
  /\ pc = "pure"
  /\ fnArg.fn = fn
  /\ pc' = "applied"
  /\ fnRes' = res
  /\ UNCHANGED <<input, task, taskAdapter, analyzeCalls, results, errors, combined,
                 sharedAdapter, currentIgnoreHTTPS, instances, tieBreak,
                 response, returned, calls, disposal, fnArg>>

ApplySuggestFixedColor ==
  Apply("suggestFixedColor",
        SuggestFixedColor(fnArg.fg, fnArg.bg, fnArg.targetRatio))

ApplyParseColor == Apply("parseColor", ParseColor(fnArg.color))

ApplyGetContrastRatio ==
  Apply("getContrastRatio", [xy |-> GetContrastRatio(fnArg.x, fnArg.y),
                             yx |-> GetContrastRatio(fnArg.y, fnArg.x)])

ApplyMeetsWCAG ==
  Apply("meetsWCAG",
        [meets |-> MeetsWCAG(fnArg.ratio, fnArg.level, fnArg.isLargeText),
         required |-> GetRequiredRatio(fnArg.level, fnArg.isLargeText)])

ApplyIsLargeText ==
  Apply("isLargeText", [large |-> IsLargeText(fnArg.fontSize, fnArg.fontWeight)])

ApplyMeetsAPCA ==
  Apply("meetsAPCA",
        [meets |-> MeetsAPCA(fnArg.lc, fnArg.category),
         mirrored |-> MeetsAPCA(-fnArg.lc, fnArg.category),
         required |-> GetRequiredAPCALightness(fnArg.isLargeText)])

ApplyRgbToHex == Apply("rgbToHex", [hex |-> RgbToHex(fnArg.rgb)])

\* suggestFixedColor is entered and reaches its loop.
EnterSuggestFixedColor ==
  /\ pc = "pure"
  /\ fnArg.fn = "bisection"
  /\ pc' = "loop"
  /\ fnRes' = SuggestStart(fnArg.fg)
  /\ UNCHANGED <<input, task, taskAdapter, analyzeCalls, results, errors, combined,
                 sharedAdapter, currentIgnoreHTTPS, instances, tieBreak,
                 response, returned, calls, disposal, fnArg>>

\* One pass of the loop.
PassSuggestFixedColor ==
  /\ pc = "loop"
  /\ LoopContinues(fnRes)
  /\ fnRes' = SuggestPass(fnRes, fnArg.fg, fnArg.bg, fnArg.targetRatio)
  /\ UNCHANGED <<pc, input, task, taskAdapter, analyzeCalls, results, errors, combined,
                 sharedAdapter, currentIgnoreHTTPS, instances, tieBreak,
                 response, returned, calls, disposal, fnArg>>

\* The loop is left and the function returns.
ReturnSuggestFixedColor ==
  /\ pc = "loop"
  /\ ~LoopContinues(fnRes)
  /\ pc' = "applied"
  /\ fnRes' = SuggestReturned(fnRes, fnArg.fg)
  /\ UNCHANGED <<input, task, taskAdapter, analyzeCalls, results, errors, combined,
                 sharedAdapter, currentIgnoreHTTPS, instances, tieBreak,
                 response, returned, calls, disposal, fnArg>>

ApplyGetWCAGContrastResult ==
  Apply("getWCAGContrastResult", GetWCAGContrastResult(fnArg.fg, fnArg.bg))

ColorNext ==
  \/ ApplySuggestFixedColor
  \/ ApplyParseColor
  \/ ApplyGetContrastRatio
  \/ ApplyMeetsWCAG
  \/ ApplyIsLargeText
  \/ ApplyMeetsAPCA
  \/ ApplyRgbToHex
  \/ EnterSuggestFixedColor
  \/ PassSuggestFixedColor
  \/ ReturnSuggestFixedColor
  \/ ApplyGetWCAGContrastResult

ColorSpec == ColorInit /\ [][ColorNext]_vars

AppliedTo(fn) == pc = "applied" /\ fnArg.fn = fn

\* Some lightness of fg's hue and saturation reaches targetRatio against bg.
Reachable(fg, bg, targetRatio) ==
  \E v \in 0..255 :
     RatioAtLeast(GetContrastRatio(HslToRgb([RgbToHsl(fg) EXCEPT
                                               !.l = LightnessOfChannel(v)]), bg),
                  targetRatio)

\* C12: whenever some lightness of fg's hue and saturation reaches the target
\* against bg, the colour suggestFixedColor returns has a contrast ratio with
\* bg of at least target - 0.1, for fg darker than bg and for fg lighter.
C12_SuggestionReachesTarget ==
  AppliedTo("suggestFixedColor") /\ Reachable(fnArg.fg, fnArg.bg, fnArg.targetRatio)
    => RatioAtLeast(GetContrastRatio(fnRes.color, fnArg.bg), fnArg.targetRatio - 10)

RECURSIVE FractionLess(_, _, _, _)
\* a/b < c/d for a, c >= 0 and b, d > 0, by the integer parts and then the
\* remainders
FractionLess(a, b, c, d) ==
  IF a \div b # c \div d THEN a \div b < c \div d
  ELSE IF c % d = 0 THEN FALSE
  ELSE IF a % b = 0 THEN TRUE
  ELSE FractionLess(d, c % d, b, a % b)

RatioLess(x, y) == FractionLess(x.num, x.den, y.num, y.den)

\* C13: when the ratio of fg and bg already meets the target,
\* suggestFixedColor ends before its first halving and returns fg unchanged;
\* it never returns a colour whose ratio with bg is lower than that of fg.
C13_MeetingColourUnchanged ==
  AppliedTo("suggestFixedColor") =>
    /\ RatioAtLeast(GetContrastRatio(fnArg.fg, fnArg.bg), fnArg.targetRatio)
         => fnRes.color = fnArg.fg /\ fnRes.iterations = 0
    /\ ~RatioLess(GetContrastRatio(fnRes.color, fnArg.bg),
                  GetContrastRatio(fnArg.fg, fnArg.bg))

\* The text parseColor works on.
Normalized(color) == ToLowerCase(Trim(color.chars))

HexDigitsOnly(w) == \A i \in 1..Len(w) : DigitValue(w[i], 16) >= 0

\* C14: for an input that starts with '#', parseColor gives null unless the
\* rest is exactly 3, 6 or 8 characters that are all hexadecimal digits; one
\* character that is no hexadecimal digit, wherever it stands, gives null.
C14_MalformedHexRejected ==
  AppliedTo("parseColor") /\ fnArg.color.isString
    /\ StartsWithAt(Normalized(fnArg.color), 1, <<"#">>)
    => LET rest == Tail(Normalized(fnArg.color))
       IN ~(Len(rest) \in {3, 6, 8} /\ HexDigitsOnly(rest)) => fnRes = Null

\* C15: for every input parseColor returns null or an RGB triple whose r, g
\* and b are present and are integers of 0..255, also for rgb()/rgba() with
\* channel numbers above 255 and for names outside the table.
C15_NullOrCanonicalRgb ==
  AppliedTo("parseColor") =>
    \/ fnRes = Null
    \/ /\ fnRes.kind = "rgb"
       /\ fnRes.r \in 0..255 /\ fnRes.g \in 0..255 /\ fnRes.b \in 0..255

\* C16: getContrastRatio(x, y) equals getContrastRatio(y, x), lies between
\* 1 and 21, and getContrastRatio(x, x) is exactly 1.
C16_RatioSymmetricAndBounded ==
  AppliedTo("getContrastRatio") =>
    /\ fnRes.xy = fnRes.yx
    /\ fnRes.xy.den <= fnRes.xy.num /\ fnRes.xy.num <= 21 * fnRes.xy.den
    /\ fnArg.x = fnArg.y => fnRes.xy.num = fnRes.xy.den

\* White against black: the ratio is 21 in both orders.
C16_Witness ==
  /\ AppliedTo("getContrastRatio")
  /\ fnArg.x = Rgb(255, 255, 255) /\ fnArg.y = Rgb(0, 0, 0)
  /\ fnRes.xy.num = 21 * fnRes.xy.den
  /\ fnRes.yx.num = 21 * fnRes.yx.den

\* C17: meetsWCAG(ratio, level, isLarge) holds exactly when ratio is at least
\* getRequiredRatio(level, isLarge), which is 4.5 for AA normal, 3.0 for AA
\* large, 7.0 for AAA normal and 4.5 for AAA large; a ratio equal to the
\* threshold passes.
C17_MeetsIffAtLeastRequired ==
  AppliedTo("meetsWCAG") =>
    /\ fnRes.meets <=> fnArg.ratio >= fnRes.required
    /\ fnRes.required =
         (CASE fnArg.level = "AA" /\ ~fnArg.isLargeText -> 450
            [] fnArg.level = "AA" /\ fnArg.isLargeText -> 300
            [] fnArg.level = "AAA" /\ ~fnArg.isLargeText -> 700
            [] fnArg.level = "AAA" /\ fnArg.isLargeText -> 450)

\* A ratio of exactly 7.0 passes AAA for normal text.
C17_Witness ==
  /\ AppliedTo("meetsWCAG")
  /\ fnArg.level = "AAA" /\ ~fnArg.isLargeText /\ fnArg.ratio = 700
  /\ fnRes.meets

\* C18: isLargeText(fontSize, fontWeight) holds exactly when fontWeight >= 700
\* and fontSize >= 18.5, or fontSize >= 24; both limits are inclusive, and
\* weight 699 at 18.5 px is not large.
C18_LargeTextLimits ==
  AppliedTo("isLargeText") =>
    /\ fnRes.large <=> \/ fnArg.fontWeight >= 700 /\ fnArg.fontSize >= 185
                       \/ fnArg.fontSize >= 240
    /\ fnArg.fontWeight = 699 /\ fnArg.fontSize = 185 => ~fnRes.large

\* Bold text of exactly 18.5 px is large.
C18_Witness ==
  /\ AppliedTo("isLargeText")
  /\ fnArg.fontWeight = 700 /\ fnArg.fontSize = 185
  /\ fnRes.large

\* C19: meetsAPCA(lc, category) depends on |lc| only: it holds exactly when
\* |lc| >= 75 for body, >= 60 for large and >= 45 for nonText, so
\* meetsAPCA(lc, c) = meetsAPCA(-lc, c); getRequiredAPCALightness gives 60
\* for large text and 75 otherwise.
C19_APCAByAbsoluteValue ==
  AppliedTo("meetsAPCA") =>
    /\ fnRes.meets <=>
         \/ fnArg.category = "body"
            /\ (fnArg.lc >= 75 \/ fnArg.lc <= -75)
         \/ fnArg.category = "large"
            /\ (fnArg.lc >= 60 \/ fnArg.lc <= -60)
         \/ fnArg.category = "nonText"
            /\ (fnArg.lc >= 45 \/ fnArg.lc <= -45)
    /\ fnRes.meets = fnRes.mirrored
    /\ fnRes.required = IF fnArg.isLargeText THEN 60 ELSE 75

\* A negative Lc of -75 meets the body threshold.
C19_Witness ==
  /\ AppliedTo("meetsAPCA")
  /\ fnArg.category = "body" /\ fnArg.lc = -75 /\ ~fnArg.isLargeText
  /\ fnRes.meets /\ fnRes.mirrored /\ fnRes.required = 75

\* The number a pair of hexadecimal digits stands for.
PairValue(hex, k) == DigitsValue(SubSeq(hex, 2 * k, 2 * k + 1), 16)

\* The integer channel c (given in tenths) clamped to 0..255.
Saturated(c) ==
  IF c < 0 THEN 0 ELSE IF c > 2550 THEN 255 ELSE c \div 10

\* C20: rgbToHex clamps every channel to [0,255] before encoding: for integer
\* channels, also negative ones and ones above 255, the result is '#' and
\* six lower-case hexadecimal digits, each channel a zero-padded pair; the
\* channels (300, -10, 256) give '#ff00ff'.
C20_HexSaturates ==
  AppliedTo("rgbToHex") =>
    /\ Len(fnRes.hex) = 7
    /\ fnRes.hex[1] = "#"
    /\ \A i \in 2..7 :
         fnRes.hex[i] \in {"0", "1", "2", "3", "4", "5", "6", "7", "8", "9",
                          "a", "b", "c", "d", "e", "f"}
    /\ fnArg.rgb.r % 10 = 0 => PairValue(fnRes.hex, 1) = Saturated(fnArg.rgb.r)
    /\ fnArg.rgb.g % 10 = 0 => PairValue(fnRes.hex, 2) = Saturated(fnArg.rgb.g)
    /\ fnArg.rgb.b % 10 = 0 => PairValue(fnRes.hex, 3) = Saturated(fnArg.rgb.b)
    /\ fnArg.rgb = Rgb(3000, -100, 2560)
         => fnRes.hex = <<"#", "f", "f", "0", "0", "f", "f">>

\* A channel above 255, a negative one and one that needs padding.
C20_Witness ==
  /\ AppliedTo("rgbToHex")
  /\ fnArg.rgb = Rgb(3000, -100, 90)
  /\ fnRes.hex = <<"#", "f", "f", "0", "0", "0", "9">>

----------------------------------------------------------------------------
(* The bisection of suggestFixedColor *)

\* C23: suggestFixedColor only moves the foreground's luminance away from
\* the background's: for a foreground lighter than the background the colour
\* returned is at least as light as the foreground, for a darker one at
\* least as dark, and the colour returned is never on the other side of the
\* background's luminance.
C23_MovesAwayFromBackground ==
  AppliedTo("suggestFixedColor") =>
    LET fgLuminance == GetLuminance(fnArg.fg)
        bgLuminance == GetLuminance(fnArg.bg)
        luminance == GetLuminance(fnRes.color)
    IN /\ fgLuminance > bgLuminance =>
            luminance >= fgLuminance /\ luminance >= bgLuminance
       /\ fgLuminance < bgLuminance =>
            luminance <= fgLuminance /\ luminance <= bgLuminance

\* a <= b for two lightnesses in binary form
LightnessLeq(a, b) ==
  \/ a.a < b.a
  \/ a.a = b.a /\ a.b < b.b
  \/ a.a = b.a /\ a.b = b.b /\ a.c <= b.c

InBisection == fnArg.fn = "bisection" /\ pc \in {"loop", "applied"}

IsRgb(c) ==
  /\ DOMAIN c = {"r", "g", "b"}
  /\ \A k \in DOMAIN c : c[k] \in 0..255

\* bestL was never assigned in the loop: it still is the lightness read from
\* the foreground.
NoCandidateAccepted == fnRes.bestL = RgbToHsl(fnArg.fg).l

\* 0 <= low <= high <= 1, at most 50 passes counted, and what is returned.
BisectionBounded ==
  InBisection =>
    /\ fnRes.iterations \in 0..50
    /\ fnRes.broke => fnRes.iterations < 50
    /\ LightnessLeq(BinaryLightness(0, 0, 0), fnRes.low)
    /\ LightnessLeq(fnRes.low, fnRes.high)
    /\ LightnessLeq(fnRes.high, BinaryLightness(Limb, 0, 0))
    /\ pc = "applied" =>
          /\ IsRgb(fnRes.color)
          /\ NoCandidateAccepted => fnRes.color = fnArg.fg

\* Every pass either counts itself or leaves the loop.
PassCountsOrLeaves ==
  (InBisection /\ pc = "loop" /\ pc' = "loop") =>
     \/ fnRes'.iterations = fnRes.iterations + 1
     \/ fnRes'.broke /\ ~fnRes.broke

\* C24: the bisection of suggestFixedColor ends after at most 50 iterations,
\* keeps 0 <= low <= high <= 1 throughout and always returns an RGB colour;
\* when no candidate reached the target it returns the best one it has, the
\* foreground's own lightness, instead of failing.
C24_BisectionTerminates ==
  /\ []BisectionBounded
  /\ [][PassCountsOrLeaves]_vars

\* All 50 passes were made without any candidate being accepted, and the
\* foreground came back.
C24_Witness ==
  /\ InBisection
  /\ pc = "applied"
  /\ fnRes.iterations = 50
  /\ NoCandidateAccepted
  /\ fnRes.color = fnArg.fg
  /\ fnRes.low # BinaryLightness(0, 0, 0)

----------------------------------------------------------------------------
(* The flags of getWCAGContrastResult *)

\* C30: the flags of getWCAGContrastResult agree with the ratio it reports
\* and with each other: meetsAA iff the reported two-decimal ratio is at
\* least 4.5, meetsAAA iff at least 7.0, meetsAALargeText iff at least 3.0,
\* meetsAAALargeText iff at least 4.5; hence meetsAAA implies meetsAA,
\* meetsAA implies meetsAALargeText, and meetsAAALargeText equals meetsAA.
C30_FlagsAgreeWithReportedRatio ==
  AppliedTo("getWCAGContrastResult") =>
    /\ fnRes.meetsAA <=> fnRes.ratio >= 450
    /\ fnRes.meetsAAA <=> fnRes.ratio >= 700
    /\ fnRes.meetsAALargeText <=> fnRes.ratio >= 300
    /\ fnRes.meetsAAALargeText <=> fnRes.ratio >= 450
    /\ fnRes.meetsAAA => fnRes.meetsAA
    /\ fnRes.meetsAA => fnRes.meetsAALargeText
    /\ fnRes.meetsAAALargeText = fnRes.meetsAA

----------------------------------------------------------------------------
(* Properties of the aggregator *)

Done == pc = "done"

Launched(e) == task[e] # "none"

\* The task of e went through its await and came back.
SettledAfterAwait(e) == analyzeCalls[e] > 0 /\ task[e] \in {"resolved", "caught"}

HasResult(e) == \E k \in 1..Len(results) : results[k].tool = e

HasError(e) == \E k \in 1..Len(errors) : errors[k].label = ErrorLabel(e)

LighthouseRefused == "lighthouse" \in input.tools /\ ~input.url

\* Every issue an engine delivered is in the combined issues, itself or
\* through the representative of its fingerprint group.
ResultsMerged ==
  \A k \in 1..Len(results) : \A j \in 1..Len(results[k].issues) :
     \E i \in Range(combined.issues) :
        Fingerprint(i) = Fingerprint(results[k].issues[j])

RECURSIVE SumIssues(_)
SumIssues(res) ==
  IF res = <<>> THEN 0 ELSE Len(Head(res).issues) + SumIssues(Tail(res))

\* C1: the combined result is built only after every launched engine task
\* has settled, i.e. has appended its result or its error; the result and
\* the error given back are the arrays as they stand then.
C1_ResultAfterAllSettled ==
  Done =>
    /\ \A e \in Engines : Launched(e) =>
          /\ task[e] \in {"resolved", "caught"}
          /\ task[e] = "resolved" => HasResult(e)
          /\ task[e] = "caught" => HasError(e)
    /\ combined.individualResults = results
    /\ combined.error.parts = errors

\* Three tasks were launched; one failed and two delivered.
C1_Witness ==
  /\ Done
  /\ \A e \in Engines : analyzeCalls[e] = 1
  /\ Len(results) = 2
  /\ Len(errors) = 1

\* C2: once any task has come back from its await, every requested engine
\* has already been started (or refused: Lighthouse without url), so no
\* start waits for a completion and the completions may come in any order.
C2_AllStartedBeforeAnySettles ==
  (\E e \in Engines : SettledAfterAwait(e)) =>
     \A e \in input.tools : Launched(e) \/ (e = "lighthouse" /\ LighthouseRefused)

\* The completions came in the reverse of the launch order.
C2_Witness ==
  /\ Done
  /\ Len(results) = 3
  /\ results[1].tool = "lighthouse"
  /\ results[2].tool = "pa11y"
  /\ results[3].tool = "axe-core"

\* C3: when an engine task throws (while acquiring its adapter or in
\* analyze), every other launched task still settles, the issues of the
\* engines that completed are merged into the combined issues, and the
\* combined error carries the failed engine's label.
C3_FailureIsolated ==
  Done =>
    \A e \in Engines : task[e] = "caught" =>
       /\ \A o \in Engines \ {e} : Launched(o) =>
             (task[o] = "resolved" /\ HasResult(o)) \/ task[o] = "caught"
       /\ ResultsMerged
       /\ combined.error.defined
       /\ \E k \in 1..Len(combined.error.parts) :
             combined.error.parts[k].label =
               (CASE e = "axe-core" -> "Axe:"
                  [] e = "pa11y" -> "Pa11y:"
                  [] e = "lighthouse" -> "Lighthouse:")

\* Exactly one engine threw, the two others delivered issues.
C3_Witness ==
  /\ Done
  /\ Cardinality({e \in Engines : task[e] = "caught"}) = 1
  /\ Cardinality({e \in Engines : task[e] = "resolved"}) = 2
  /\ Len(combined.issues) >= 2

\* C4 as stated: success is false if and only if at least one engine task
\* failed.
C4_Original ==
  Done => (~combined.success <=> \E e \in Engines : task[e] = "caught")

\* C4: success is false if and only if at least one engine task failed or
\* Lighthouse was requested without a url and refused; whenever it is false
\* the issues of the successful engines are still merged and returned.
C4_SuccessIffNoFailure ==
  Done =>
    /\ ~combined.success <=>
          ((\E e \in Engines : task[e] = "caught") \/ LighthouseRefused)
    /\ ~combined.success => ResultsMerged

\* Unsuccessful, with the issues of two engines, though no task failed.
C4_Witness ==
  /\ Done
  /\ ~combined.success
  /\ LighthouseRefused
  /\ \A e \in Engines : task[e] # "caught"
  /\ Len(combined.individualResults) = 2
  /\ Len(combined.issues) >= 1

\* C5: with lighthouse requested and no url, Lighthouse is skipped: its
\* adapter is neither acquired nor invoked and no task is launched; the
\* other requested engines run, their issues are returned and the skip is a
\* 'Lighthouse:' entry of the combined error.
C5_LighthouseSkippedWithoutUrl ==
  LighthouseRefused =>
    /\ task["lighthouse"] = "none"
    /\ analyzeCalls["lighthouse"] = 0
    /\ taskAdapter["lighthouse"] = 0
    /\ sharedAdapter["lighthouse"] = 0
    /\ instances["lighthouse"] = <<>>
    /\ Done =>
         /\ \A e \in input.tools \ {"lighthouse"} : Launched(e)
         /\ ResultsMerged
         /\ combined.error.defined
         /\ \E k \in 1..Len(combined.error.parts) :
               /\ combined.error.parts[k].label = "Lighthouse:"
               /\ combined.error.parts[k].msg = LighthouseSkipMsg

\* Lighthouse skipped while Axe and Pa11y delivered issues.
C5_Witness ==
  /\ Done
  /\ LighthouseRefused
  /\ task["axe-core"] = "resolved"
  /\ task["pa11y"] = "resolved"
  /\ Len(combined.issues) >= 2

\* C6: issues.length <= the sum of individualResults[*].issues.length, with
\* deduplication on or off.
C6_DedupNeverIncreases ==
  Done => Len(combined.issues) <= SumIssues(combined.individualResults)

\* Deduplication collapsed issues of three engines.
C6_Witness ==
  /\ Done
  /\ input.deduplicateResults
  /\ Len(combined.individualResults) = 3
  /\ Len(combined.issues) >= 1
  /\ Len(combined.issues) < SumIssues(combined.individualResults)

\* Issue a is a missing-alt-text report on a selector on which another
\* engine reports the same defect under its own rule identifier.
SameAltDefectTwice(a) ==
  /\ CanonicalRule(a.tool, a.ruleId) = "alt-text"
  /\ a.wcag = "1.1.1"
  /\ a.selector # None
  /\ \E k, m \in 1..Len(results) :
        /\ k # m
        /\ a \in Range(results[k].issues)
        /\ \E b \in Range(results[m].issues) :
              /\ b.tool # a.tool
              /\ CanonicalRule(b.tool, b.ruleId) = "alt-text"
              /\ b.wcag = "1.1.1"
              /\ b.selector = a.selector

\* issues holds one entry for the defect of a, and issuesByWCAG['1.1.1']
\* holds that entry and no other for the selector.
OneEntryFor(a) ==
  LET entries == {k \in 1..Len(combined.issues) :
                    /\ CanonicalRule(combined.issues[k].tool,
                                     combined.issues[k].ruleId) = "alt-text"
                    /\ combined.issues[k].selector = a.selector}
  IN  /\ Cardinality(entries) = 1
      /\ "1.1.1" \in DOMAIN combined.issuesByWCAG
      /\ \A k \in entries :
            combined.issues[k] \in Range(combined.issuesByWCAG["1.1.1"])
      /\ Cardinality({k \in 1..Len(combined.issuesByWCAG["1.1.1"]) :
            combined.issuesByWCAG["1.1.1"][k].selector = a.selector}) = 1

\* C9 as stated: two engines reporting the same missing-alt-text defect on
\* the same selector leave exactly one entry for it in issues, and that entry
\* is in issuesByWCAG['1.1.1'].
C9_Original ==
  Done => \A k \in 1..Len(results) : \A a \in Range(results[k].issues) :
             SameAltDefectTwice(a) => OneEntryFor(a)

\* C9: when deduplication is enabled and two engines report the same
\* missing-alt-text defect on the same selector under their own rule
\* identifiers, issues holds exactly one entry for it and
\* issuesByWCAG['1.1.1'] holds that entry.
C9_OneEntryForSharedDefect ==
  (Done /\ input.deduplicateResults) =>
     \A k \in 1..Len(results) : \A a \in Range(results[k].issues) :
        SameAltDefectTwice(a) => OneEntryFor(a)

\* Axe and Pa11y both reported the missing alt text of img.
C9_Witness ==
  /\ Done
  /\ input.deduplicateResults
  /\ \E k, m \in 1..Len(results) :
        /\ results[k].tool = "axe-core"
        /\ results[m].tool = "pa11y"
        /\ \E a \in Range(results[k].issues) : \E b \in Range(results[m].issues) :
              /\ a.ruleId = "image-alt" /\ b.ruleId = "H37"
              /\ SameAltDefectTwice(a)
  /\ Len(combined.issuesByWCAG["1.1.1"]) = 1

\* C10: every issue under issuesByWCAG[c] has wcag.criterion = c and is an
\* element of issues; an issue of issues without wcag reference is under no
\* key of issuesByWCAG.
C10_GroupsAgreeWithIssues ==
  Done =>
    /\ \A c \in DOMAIN combined.issuesByWCAG :
          \A i \in Range(combined.issuesByWCAG[c]) :
             i.wcag = c /\ i \in Range(combined.issues)
    /\ \A i \in Range(combined.issues) : i.wcag = None =>
          \A c \in DOMAIN combined.issuesByWCAG :
             i \notin Range(combined.issuesByWCAG[c])

\* Deduplication dropped a grouped issue and an issue without wcag is left.
C10_Witness ==
  /\ Done
  /\ \E i \in Range(combined.issues) : i.wcag = None
  /\ DOMAIN combined.issuesByWCAG # {}
  /\ Len(combined.issues) < SumIssues(combined.individualResults)

----------------------------------------------------------------------------
(* Summaries *)

Sum4(f) == f["critical"] + f["serious"] + f["moderate"] + f["minor"]

SumPrinciples(f) ==
  f["perceivable"] + f["operable"] + f["understandable"] + f["robust"]

\* summary counts the issues of the list it was built from.
SummaryCounts(summary, issues) ==
  /\ summary.total = Len(issues)
  /\ Sum4(summary.bySeverity) = summary.total
  /\ \A s \in Severities :
       summary.bySeverity[s] =
         Cardinality({k \in 1..Len(issues) : issues[k].severity = s})
  /\ SumPrinciples(summary.byPrinciple) =
       Cardinality({k \in 1..Len(issues) : issues[k].principle # None})
  /\ \A p \in Principles :
       summary.byPrinciple[p] =
         Cardinality({k \in 1..Len(issues) : issues[k].principle = p})

\* C11: buildSummary counts every issue exactly once in bySeverity: the four
\* counts sum to total, and total is the number of issues summarised, which
\* for the combined result are its (deduplicated) issues; byPrinciple counts
\* exactly the issues that carry wcag.principle.
C11_SummaryCountsIssues ==
  /\ Done => SummaryCounts(combined.summary, combined.issues)
  /\ \A k \in 1..Len(results) : SummaryCounts(results[k].summary, results[k].issues)

\* Deduplication dropped an issue, and an issue without principle is counted
\* in bySeverity only.
C11_Witness ==
  /\ Done
  /\ combined.originalCount > Len(combined.issues)
  /\ combined.summary.total >= 2
  /\ \E i \in Range(combined.issues) : i.principle = None
  /\ SumPrinciples(combined.summary.byPrinciple) < combined.summary.total

----------------------------------------------------------------------------
(* One attempt per engine, one account per engine *)

\* The entries of errs carrying the label of e.
ErrorEntriesOf(e, errs) ==
  {k \in 1..Len(errs) : errs[k].label = ErrorLabel(e)}

\* The entries of res delivered by e.
ResultEntriesOf(e, res) == {k \in 1..Len(res) : res[k].tool = e}

\* C21: within one call analyze is invoked at most once per requested
\* engine, whether it succeeds or fails (there is no retry), and a failed
\* engine contributes exactly one entry to the recorded errors.
C21_NoRetry ==
  \A e \in Engines :
     /\ analyzeCalls[e] <= 1
     /\ analyzeCalls[e] = 1 => e \in input.tools
     /\ task[e] = "caught" => Cardinality(ErrorEntriesOf(e, errors)) = 1
     /\ task[e] \in {"pending", "resolved"} => ErrorEntriesOf(e, errors) = {}

\* analyze of one engine rejected after its single invocation, another
\* engine's single invocation delivered.
C21_Witness ==
  /\ Done
  /\ \E e, o \in Engines :
        /\ task[e] = "caught" /\ analyzeCalls[e] = 1
        /\ Cardinality(ErrorEntriesOf(e, combined.error.parts)) = 1
        /\ task[o] = "resolved" /\ analyzeCalls[o] = 1

\* Engine e has its one entry of individualResults, at the position at which
\* toolsUsed names it.
InResultsOnce(e) ==
  /\ Cardinality(ResultEntriesOf(e, combined.individualResults)) = 1
  /\ \A k \in ResultEntriesOf(e, combined.individualResults) :
        k \in DOMAIN combined.toolsUsed /\ combined.toolsUsed[k] = e

\* results changes only by one append, made by one task that completes.
OneAppendPerCompletedTask ==
  results' # results =>
     /\ results' = Append(results, results'[Len(results')])
     /\ \E e \in Engines :
           /\ results'[Len(results')].tool = e
           /\ task[e] = "pending" /\ task'[e] = "resolved"
           /\ \A o \in Engines \ {e} : task'[o] = task[o]

\* Every requested engine has one entry of individualResults or one labelled
\* entry of the error string, and an engine not requested has neither.
AccountedOnce ==
  /\ Len(combined.toolsUsed) = Len(combined.individualResults)
  /\ \A e \in input.tools :
        \/ /\ InResultsOnce(e)
           /\ ErrorEntriesOf(e, combined.error.parts) = {}
        \/ /\ ResultEntriesOf(e, combined.individualResults) = {}
           /\ Cardinality(ErrorEntriesOf(e, combined.error.parts)) = 1
  /\ \A e \in Engines \ input.tools :
        /\ ResultEntriesOf(e, combined.individualResults) = {}
        /\ ErrorEntriesOf(e, combined.error.parts) = {}

\* C22: once all tasks have settled every requested engine is accounted for
\* exactly once: one entry of individualResults (named at the same position
\* of toolsUsed) or one labelled entry of the error string, never both and
\* never neither; and the shared results array only grows, by one append
\* per completed task.
C22_EachEngineAccountedOnce ==
  /\ [](Done => AccountedOnce)
  /\ [][OneAppendPerCompletedTask]_vars

\* Three engines requested; the last one of the source delivered first, the
\* first one failed.
C22_Witness ==
  /\ Done
  /\ input.tools = Engines
  /\ Len(combined.individualResults) = 2
  /\ combined.toolsUsed = <<"lighthouse", "pa11y">>
  /\ Cardinality(ErrorEntriesOf("axe-core", combined.error.parts)) = 1

----------------------------------------------------------------------------
(* Engines that report their failure in the result *)

\* C26: the combined success is true only if every entry of
\* individualResults has success true: an engine whose analyze resolves,
\* without throwing, to a result with success false and an error makes the
\* combined success false and its error part of the combined error.
C26_FailedResultFailsCombined ==
  Done =>
    \A k \in 1..Len(combined.individualResults) :
       ~combined.individualResults[k].success =>
          /\ ~combined.success
          /\ combined.error.defined
          /\ \E j \in 1..Len(combined.error.parts) :
                /\ combined.error.parts[j].label =
                     ErrorLabel(combined.individualResults[k].tool)
                /\ combined.error.parts[j].msg =
                     combined.individualResults[k].error

----------------------------------------------------------------------------
(* The registration boundary *)

\* The handler side of the callback marked its response as an error.
HandlerMarkedError == pc \in {"done", "invalid"} /\ response.isError

\* C29: whenever the analyze-mixed handler produces a response marked as an
\* error (combined success false, or invalid input), the response the
\* registered callback returns to the MCP client is marked as an error too:
\* it has isError true.
C29_ErrorMarkReachesClient ==
  HandlerMarkedError =>
    /\ "isError" \in DOMAIN returned
    /\ returned.isError

----------------------------------------------------------------------------
(* The shared adapters under overlapping calls *)

\* Call c takes its adapter of engine e in this step.
Acquires(c, e) == calls[c].taskAdapter[e] = 0 /\ calls'[c].taskAdapter[e] # 0

\* The slot of e holds an adapter configured with the value ign.
SlotServes(e, ign) ==
  sharedAdapter[e] # 0 /\ instances[e][sharedAdapter[e]].ignoreHTTPSErrors = ign

\* What one acquisition does to the adapters of e.
AcquiresLazily(c, e) ==
  LET ign == calls[c].input.ignoreHTTPSErrors
      k == calls'[c].taskAdapter[e]
  IN /\ k = sharedAdapter'[e]
     /\ k \in 1..Len(instances'[e])
     /\ instances'[e][k].ignoreHTTPSErrors = ign
     /\ IF SlotServes(e, ign)
        THEN k = sharedAdapter[e] /\ instances'[e] = instances[e]
        ELSE /\ Len(instances'[e]) = Len(instances[e]) + 1
             /\ k = Len(instances'[e])
             /\ instances'[e][k].disposeCalls = 0
             /\ \A j \in 1..Len(instances[e]) :
                   instances'[e][j].disposeCalls =
                     instances[e][j].disposeCalls
                       + (IF j = sharedAdapter[e] THEN 1 ELSE 0)

\* C25: adapters are acquired lazily and reused.  An adapter is constructed
\* only in an acquisition, and only when the slot of the engine is empty
\* (the engine is requested for the first time, or for the first time since
\* the slots were emptied) or holds an adapter configured with another
\* ignoreHTTPSErrors; in the latter case dispose is invoked once on the
\* replaced adapter.  An acquisition that finds an adapter with the value it
\* requests receives that very adapter, and the adapter received is always
\* configured with the requested value.
C25_LazyAndReused ==
  [][\A e \in Engines :
        /\ \A c \in DOMAIN calls : Acquires(c, e) => AcquiresLazily(c, e)
        /\ Len(instances'[e]) # Len(instances[e]) =>
              \E c \in DOMAIN calls : Acquires(c, e)]_vars

\* Two calls overlap: the second replaced the Axe adapter the first one had
\* constructed, and no Lighthouse adapter exists since no call asked for one.
C25_Witness ==
  /\ \A c \in 1..2 : calls[c].pc = "awaitAll"
  /\ calls[1].taskAdapter["axe-core"] = 1
  /\ calls[2].taskAdapter["axe-core"] = 2
  /\ instances["axe-core"][1].disposeCalls = 1
  /\ instances["axe-core"][1].ignoreHTTPSErrors
       # instances["axe-core"][2].ignoreHTTPSErrors
  /\ instances["lighthouse"] = <<>>

\* An analyze call on adapter k of engine e has not settled yet.
AnalyzePending(e, k) ==
  \E c \in DOMAIN calls :
     calls[c].task[e] = "pending" /\ calls[c].taskAdapter[e] = k

\* C27: dispose is never invoked on an adapter while an analyze call on that
\* adapter is still pending, whatever the interleaving of overlapping calls
\* (also with different ignoreHTTPSErrors) and of disposeAdapters.
C27_NoDisposeWhileAnalyzing ==
  [][\A e \in Engines : \A k \in 1..Len(instances[e]) :
        instances'[e][k].disposeCalls > instances[e][k].disposeCalls =>
           ~AnalyzePending(e, k)]_vars

\* C28: when disposeAdapters settles, the three slots are empty and dispose
\* has been invoked on every adapter constructed so far, also when a call
\* acquired or replaced an adapter while disposeAdapters was awaiting and
\* when a dispose rejected.
C28_DisposalLeavesNothing ==
  [][(disposal.pc = "awaiting" /\ disposal'.pc \in {"fulfilled", "rejected"}) =>
        \A e \in Engines :
           /\ sharedAdapter'[e] = 0
           /\ \A k \in 1..Len(instances'[e]) : instances'[e][k].disposeCalls > 0]_vars

----------------------------------------------------------------------------
(* Properties of deduplicateIssues *)

Applied == pc = "applied"

\* The reorderings of a list.
Reorderings(x) ==
  {[k \in 1..Len(x) |-> x[p[k]]] : p \in Permutations(1..Len(x))}

\* y keeps the issues of every tool in the order they have in x.
KeepsOrderWithinTools(x, y) ==
  \A t \in {x[k].tool : k \in 1..Len(x)} :
     SelectSeq(x, LAMBDA i : i.tool = t) = SelectSeq(y, LAMBDA i : i.tool = t)

\* No fingerprint group of x holds two different issues that neither
\* richness nor tool priority tells apart.
NoFullTie(x) ==
  \A a, b \in Range(x) :
     (a # b /\ Fingerprint(a) = Fingerprint(b)) =>
        Preferred(a, b) \/ Preferred(b, a)

\* C7: deduplicate(deduplicate(x)) = deduplicate(x).
C7_DedupIdempotent == Applied => fnRes.twice = fnRes.once

\* The first pass removed something and kept several issues.
C7_Witness ==
  /\ Applied
  /\ Len(fnRes.once) < Len(fnArg)
  /\ Len(fnRes.once) >= 2

====
